---- MODULE Spec2Model ----
(***************************************************************************)
(* A model of convert_mkdocs_to_hugo.py: the navigation parser             *)
(* (parse_mkdocs_nav), and the text transforms applied to each document    *)
(* (strip_existing_front_matter, clean_markdown_content,                   *)
(* replace_yaml_includes).                                                 *)
(*                                                                         *)
(* Text is a sequence of one-character strings, so that the regular        *)
(* expressions and the os.path functions of the source are computed        *)
(* character by character, in the order Python's backtracking matcher      *)
(* tries the alternatives (greedy: longest first, lazy: shortest first).   *)
(***************************************************************************)
EXTENDS FiniteSets, Integers, Sequences, TLC

----------------------------------------------------------------------------
(* Bounds of the model.                                                    *)

\* Lines of a navigation block whose lines are drawn one by one.
MaxLines == 3

\* Lines of a document whose front matter is stripped.
MaxStripLines == 6

\* Passes of strip_existing_front_matter over one document.
MaxPasses == 2

\* Pieces of a document that is cleaned.
MaxCleanPieces == 3

\* Pieces of a document whose includes are replaced.
MaxIncludePieces == 3

\* Lookups of an asset over one assets folder.
MaxLookups == 2

\* Pieces of a document whose image references are rewritten.
MaxAssetPieces == 2

----------------------------------------------------------------------------
(* Characters and strings.                                                 *)

\* The whitespace of str.strip() and of the regular expressions' \s.
WS == {" ", "\t", "\n"}

Max(S) == CHOOSE x \in S : \A y \in S : y <= x

Min(S) == CHOOSE x \in S : \A y \in S : x <= y

\* Every character of s[a..b] is in S.
AllIn(s, a, b, S) == \A i \in a..b : s[i] \in S

\* No newline in s[a..b]: what '.' matches without re.DOTALL.
NoNewline(s, a, b) == \A i \in a..b : s[i] # "\n"

\* The number of leading whitespace characters: len(s) - len(s.lstrip()).
LStripLen(s) ==
    IF AllIn(s, 1, Len(s), WS) THEN Len(s)
    ELSE (CHOOSE i \in 1..Len(s) : s[i] \notin WS /\ AllIn(s, 1, i - 1, WS)) - 1

\* The number of trailing whitespace characters.
RStripLen(s) ==
    IF AllIn(s, 1, Len(s), WS) THEN Len(s)
    ELSE Len(s) - (CHOOSE i \in 1..Len(s) : s[i] \notin WS /\ AllIn(s, i + 1, Len(s), WS))

\* str.strip()
Strip(s) == SubSeq(s, LStripLen(s) + 1, Len(s) - RStripLen(s))

\* The length of the run of whitespace that starts at position i.
WsRun(s, i) == IF i > Len(s) THEN 0 ELSE LStripLen(SubSeq(s, i, Len(s)))

\* str.startswith(p)
StartsWith(s, p) == Len(s) >= Len(p) /\ SubSeq(s, 1, Len(p)) = p

\* p occurs in s at position i.
OccursAt(s, p, i) == i >= 1 /\ i + Len(p) - 1 <= Len(s) /\ SubSeq(s, i, i + Len(p) - 1) = p

\* p in s
Contains(s, p) == \E i \in 1..Len(s) : OccursAt(s, p, i)

\* str.replace(a, b) for single characters a, b.
ReplaceChar(s, a, b) == [i \in 1..Len(s) |-> IF s[i] = a THEN b ELSE s[i]]

LowerCase == <<"a","b","c","d","e","f","g","h","i","j","k","l","m",
               "n","o","p","q","r","s","t","u","v","w","x","y","z">>

UpperCase == <<"A","B","C","D","E","F","G","H","I","J","K","L","M",
               "N","O","P","Q","R","S","T","U","V","W","X","Y","Z">>

IsCased(c) == \E i \in 1..Len(LowerCase) : c = LowerCase[i] \/ c = UpperCase[i]

ToUpper(c) ==
    IF \E i \in 1..Len(LowerCase) : c = LowerCase[i]
    THEN UpperCase[CHOOSE i \in 1..Len(LowerCase) : c = LowerCase[i]]
    ELSE c

ToLower(c) ==
    IF \E i \in 1..Len(UpperCase) : c = UpperCase[i]
    THEN LowerCase[CHOOSE i \in 1..Len(UpperCase) : c = UpperCase[i]]
    ELSE c

\* str.title(): a cased character is upper-cased when it starts a word (the
\* character before it is not cased) and lower-cased otherwise.
Title(s) ==
    [i \in 1..Len(s) |->
        IF i = 1 \/ ~IsCased(s[i - 1]) THEN ToUpper(s[i]) ELSE ToLower(s[i])]

\* Python's None (no one-character string equals it).
None == <<"<None>">>

----------------------------------------------------------------------------
(* os.path                                                                 *)

\* The position of the last "/" of p, 0 when there is none.
LastSlash(p) ==
    IF \E i \in 1..Len(p) : p[i] = "/"
    THEN Max({i \in 1..Len(p) : p[i] = "/"})
    ELSE 0

\* os.path.dirname: the part before the last "/", its trailing slashes
\* stripped unless it consists of slashes only.
Dirname(p) ==
    LET head == SubSeq(p, 1, LastSlash(p))
    IN  IF head # <<>> /\ ~AllIn(head, 1, Len(head), {"/"})
        THEN SubSeq(head, 1, Max({i \in 1..Len(head) : head[i] # "/"}))
        ELSE head

\* os.path.basename
Basename(p) == SubSeq(p, LastSlash(p) + 1, Len(p))

\* os.path.splitext(p)[0]: cut at the last "." that follows a character of
\* the base name other than ".".
SplitextRoot(p) ==
    LET sep  == LastSlash(p)
        dots == {i \in 1..Len(p) : p[i] = "."}
        dot  == IF dots = {} THEN 0 ELSE Max(dots)
    IN  IF dot > sep /\ \E i \in (sep + 1)..(dot - 1) : p[i] # "."
        THEN SubSeq(p, 1, dot - 1)
        ELSE p

\* os.path.join(a, b): an absolute b discards a.
Join(a, b) ==
    IF StartsWith(b, <<"/">>) THEN b
    ELSE IF a = <<>> \/ a[Len(a)] = "/" THEN a \o b
    ELSE a \o <<"/">> \o b

----------------------------------------------------------------------------
(* The regular expressions of parse_mkdocs_nav, as re.match applies them   *)
(* to a stripped line.  A result is [ok, g1, g2]: whether the pattern      *)
(* matched, and its groups.                                                *)

NoMatch == [ok |-> FALSE, g1 |-> <<>>, g2 |-> <<>>]

\* s[f-2..f] = ".md"
EndsMd(s, f) == f >= 3 /\ f <= Len(s) /\ s[f - 2] = "." /\ s[f - 1] = "m" /\ s[f] = "d"

\* -\s+(.+?):\s*$ with \s+ taking j characters and group 1 ending at e.
HeaderCand(s, j, e) ==
    /\ e >= j + 2 /\ e + 1 <= Len(s)
    /\ NoNewline(s, j + 2, e)
    /\ s[e + 1] = ":"
    /\ AllIn(s, e + 2, Len(s), WS)

\* r'-\s+(.+?):\s*$': a section or subsection heading.
ReHeader(s) ==
    IF ~StartsWith(s, <<"-">>) THEN NoMatch
    ELSE LET js == {j \in 1..WsRun(s, 2) : \E e \in 1..Len(s) : HeaderCand(s, j, e)}
         IN  IF js = {} THEN NoMatch
             ELSE LET j == Max(js)
                      e == Min({x \in 1..Len(s) : HeaderCand(s, j, x)})
                  IN  [ok |-> TRUE, g1 |-> SubSeq(s, j + 2, e), g2 |-> <<>>]

\* -\s+(.+?):\s+(.+\.md) with the first \s+ taking j characters, group 1
\* ending at e, the second \s+ taking m characters and group 2 ending at f.
FileRefCand(s, j, e, m, f) ==
    /\ e >= j + 2 /\ e + 1 <= Len(s)
    /\ NoNewline(s, j + 2, e)
    /\ s[e + 1] = ":"
    /\ m >= 1 /\ m <= WsRun(s, e + 2)
    /\ EndsMd(s, f) /\ f - 3 >= e + 2 + m
    /\ NoNewline(s, e + 2 + m, f)

\* r'-\s+(.+?):\s+(.+\.md)': a "Title: path.md" leaf.
ReFileRef(s) ==
    IF ~StartsWith(s, <<"-">>) THEN NoMatch
    ELSE LET N  == 1..Len(s)
             Ms(e) == 1..WsRun(s, e + 2)
             js == {j \in 1..WsRun(s, 2) :
                       \E e \in N : \E m \in Ms(e) : \E f \in N : FileRefCand(s, j, e, m, f)}
         IN  IF js = {} THEN NoMatch
             ELSE LET j == Max(js)
                      e == Min({x \in N : \E m \in Ms(x) : \E f \in N : FileRefCand(s, j, x, m, f)})
                      m == Max({x \in Ms(e) : \E f \in N : FileRefCand(s, j, e, x, f)})
                      f == Max({x \in N : FileRefCand(s, j, e, m, x)})
                  IN  [ok |-> TRUE,
                       g1 |-> SubSeq(s, j + 2, e),
                       g2 |-> SubSeq(s, e + 2 + m, f)]

\* -\s+"(.+\.md)" with \s+ taking j characters and the group ending at f.
QuotedCand(s, j, f) ==
    /\ j + 2 <= Len(s) /\ s[j + 2] = "\""
    /\ EndsMd(s, f) /\ f - 3 >= j + 3
    /\ NoNewline(s, j + 3, f)
    /\ f + 1 <= Len(s) /\ s[f + 1] = "\""

\* r'-\s+"(.+\.md)"': a quoted bare path.
ReQuoted(s) ==
    IF ~StartsWith(s, <<"-">>) THEN NoMatch
    ELSE LET N  == 1..Len(s)
             js == {j \in 1..WsRun(s, 2) : \E f \in N : QuotedCand(s, j, f)}
         IN  IF js = {} THEN NoMatch
             ELSE LET j == Max(js)
                      f == Max({x \in N : QuotedCand(s, j, x)})
                  IN  [ok |-> TRUE, g1 |-> SubSeq(s, j + 3, f), g2 |-> <<>>]

\* The title of a quoted bare path: the file name without its extension,
\* "-" replaced by " ", title-cased.
QuotedTitle(filepath) == Title(ReplaceChar(SplitextRoot(Basename(filepath)), "-", " "))

----------------------------------------------------------------------------
(* The inputs of parse_mkdocs_nav: the configuration file and the source   *)
(* tree.                                                                   *)

\* Lines of the navigation block.
\* "  - Guide:"
L_Guide == <<" "," ","-"," ","G","u","i","d","e",":">>

\* "  - API:"
L_API == <<" "," ","-"," ","A","P","I",":">>

\* "  - Home: guide/index.md"
L_Home == <<" "," ","-"," ","H","o","m","e",":"," ","g","u","i","d","e","/","i","n","d","e","x",".","m","d">>

\* "      - Intro: guide/intro.md"
L_Intro == <<" "," "," "," "," "," ","-"," ","I","n","t","r","o",":"," ","g","u","i","d","e","/","i","n","t","r","o",".","m","d">>

\* "      - Usage: api/usage.md"
L_Usage == <<" "," "," "," "," "," ","-"," ","U","s","a","g","e",":"," ","a","p","i","/","u","s","a","g","e",".","m","d">>

\* "      - Sub:"
L_Sub == <<" "," "," "," "," "," ","-"," ","S","u","b",":">>

\* '      - "guide/sub/my-page.md"'
L_Quoted == <<" "," "," "," "," "," ","-"," ","\"","g","u","i","d","e","/","s","u","b","/","m","y","-","p","a","g","e",".","m","d","\"">>

\* "      - Gone: api/gone.md"
L_Gone == <<" "," "," "," "," "," ","-"," ","G","o","n","e",":"," ","a","p","i","/","g","o","n","e",".","m","d">>

\* "      - junk"
L_Junk == <<" "," "," "," "," "," ","-"," ","j","u","n","k">>

\* "          - Deep: guide/sub/deep.md"
L_Deep == <<" "," "," "," "," "," "," "," "," "," ","-"," ","D","e","e","p",":"," ","g","u","i","d","e","/","s","u","b","/","d","e","e","p",".","m","d">>

\* '          - "api/v1/ref.md"'
L_DeepQ == <<" "," "," "," "," "," "," "," "," "," ","-"," ","\"","a","p","i","/","v","1","/","r","e","f",".","m","d","\"">>

\* ""
L_Blank == <<>>

\* "  # note"
L_Comment == <<" "," ","#"," ","n","o","t","e">>

\* "# note"
L_Comment0 == <<"#"," ","n","o","t","e">>

\* "    - Odd: api/odd.md"
L_Odd == <<" "," "," "," ","-"," ","O","d","d",":"," ","a","p","i","/","o","d","d",".","m","d">>

\* "plugins:"
L_Plugins == <<"p","l","u","g","i","n","s",":">>

NavLinePool ==
    {L_Guide, L_API, L_Home, L_Intro, L_Usage, L_Sub, L_Quoted, L_Gone,
     L_Junk, L_Deep, L_DeepQ, L_Blank, L_Comment, L_Comment0, L_Odd, L_Plugins}

\* Lines of the configuration file up to the navigation key.
\* "site_name: x"
H_Site == <<"s","i","t","e","_","n","a","m","e",":"," ","x">>

\* "nav: x"
H_NavValue == <<"n","a","v",":"," ","x">>

\* " nav:"
H_NavIndented == <<" ","n","a","v",":">>

\* "nav:"
H_Nav == <<"n","a","v",":">>

\* "nav:  "
H_NavTrail == <<"n","a","v",":"," "," ">>

\* The configuration file's lines up to and including the navigation key,
\* when it has one.
ConfigChoices ==
    {<<H_Site>>, <<H_NavValue>>, <<H_Site, H_NavIndented>>, <<>>,
     <<H_Site, H_Nav>>, <<H_NavTrail>>}

\* args.source
SourceDir == <<"/","d","o","c","s">>

\* The paths that exist on disk.
FullTree ==
    {<<"/","d","o","c","s","/","g","u","i","d","e","/","i","n","d","e","x",".","m","d">>,
     <<"/","d","o","c","s","/","g","u","i","d","e","/","i","n","t","r","o",".","m","d">>,
     <<"/","d","o","c","s","/","a","p","i","/","u","s","a","g","e",".","m","d">>,
     <<"/","d","o","c","s","/","g","u","i","d","e","/","s","u","b","/","m","y","-","p","a","g","e",".","m","d">>,
     <<"/","d","o","c","s","/","g","u","i","d","e","/","s","u","b","/","d","e","e","p",".","m","d">>,
     <<"/","d","o","c","s","/","a","p","i","/","v","1","/","r","e","f",".","m","d">>,
     <<"/","d","o","c","s","/","a","p","i","/","o","d","d",".","m","d">>}

SparseTree ==
    {<<"/","d","o","c","s","/","g","u","i","d","e","/","i","n","t","r","o",".","m","d">>,
     <<"/","d","o","c","s","/","a","p","i","/","u","s","a","g","e",".","m","d">>}

TreeChoices == {FullTree, SparseTree}

\* The navigation block of the specification's example: two sections, a
\* nested leaf in each.
ExampleNav == <<L_Guide, L_Intro, L_API, L_Usage>>

----------------------------------------------------------------------------
(* parse_mkdocs_nav: the state.                                            *)

VARIABLES
    pc,                     \* "start", "loop", "done", or "raised" (ValueError)
    config,                 \* the configuration file's lines before the nav block
    source_files,           \* the paths that exist on disk
    scripted,               \* the nav block is ExampleNav (else: any lines)
    lines,                  \* the lines of the nav block iterated so far
    file_metadata,          \* filepath -> [title, section, subsection, weight]
    section_metadata,       \* dir_path -> [title, weight]
    current_section,
    current_subsection,
    current_section_dir,
    current_subsection_dir,
    section_weight,
    subsection_weight,
    item_weight,
    leaf_log,               \* history: the writes to file_metadata, in order
    content,                \* the text of the document being converted
    before,                 \* history: the text before each transform applied
    snippet_files,          \* the paths that exist under the snippet folder
    missing_snippets,       \* the list of [snippet, referenced_in]
    md_filename,            \* the name of the document being converted
    include_log,            \* history: the paths replace_include was called with
    assets_tree,            \* the entries under the assets folder: [path, is_file]
    asset_calls,            \* history: the calls of find_asset_in_folder
    assets_tracking,        \* decoded asset filename -> set of documents
    snippet_source,         \* source_dir/snippets: whether it exists, relative path -> text
    snippet_copies,         \* the snippet destination folder: relative path -> text
    unmatched_files,        \* main: the documents on disk that the nav does not name
    queue,                  \* main: the documents the loop has still to convert
    converted_count,
    converted_matched,
    converted_unmatched,
    error_count,
    attempts,               \* history: the documents the loop attempted, and how each ended
    index_files             \* main: the directories that were given an _index.md

navVars ==
    <<pc, config, source_files, scripted, lines, file_metadata, section_metadata,
      current_section, current_subsection, current_section_dir,
      current_subsection_dir, section_weight, subsection_weight, item_weight,
      leaf_log>>

textVars ==
    <<content, before, snippet_files, missing_snippets, md_filename, include_log>>

assetVars == <<assets_tree, asset_calls, assets_tracking>>

copyVars == <<snippet_source, snippet_copies>>

mainVars ==
    <<unmatched_files, queue, converted_count, converted_matched,
      converted_unmatched, error_count, attempts, index_files>>

\* The variables that neither the parser nor the text transforms touch.
restVars == <<assetVars, copyVars, mainVars>>

vars == <<navVars, textVars, restVars>>

\* The step of every weight counter.
WeightStep == 10

\* The empty dict.
EmptyMap == [k \in {} |-> 0]

\* d[k] = v
Put(d, k, v) == [x \in DOMAIN d \cup {k} |-> IF x = k THEN v ELSE d[x]]

\* A value that is neither None nor empty.
Truthy(x) == x # None /\ x # <<>>

----------------------------------------------------------------------------
(* parse_mkdocs_nav: the tests it makes on a line.                         *)

\* re.search(r'^nav:\s*$', content, re.MULTILINE) matches on this line.
IsNavKey(line) ==
    /\ StartsWith(line, <<"n", "a", "v", ":">>)
    /\ AllIn(line, 5, Len(line), WS)

\* The configuration has a line the nav pattern matches.
HasNavKey(cfg) == \E i \in 1..Len(cfg) : IsNavKey(cfg[i])

\* "if line and not line.startswith(' ') and not line.startswith('\t')": the
\* next top-level key.
IsTopLevel(line) == line # <<>> /\ line[1] # " " /\ line[1] # "\t"

\* "if not line.strip() or line.strip().startswith('#')"
IsBlankOrComment(line) == Strip(line) = <<>> \/ StartsWith(Strip(line), <<"#">>)

\* indent = len(line) - len(line.lstrip())
Indent(line) == LStripLen(line)

\* stripped.startswith('- ')
IsEntry(line) == StartsWith(Strip(line), <<"-", " ">>)

\* The band of a line that is iterated and not skipped: 1, 2, 3, or 0.
Band(line) ==
    IF Indent(line) = 2 /\ IsEntry(line) THEN 1
    ELSE IF Indent(line) >= 6 /\ Indent(line) <= 8 /\ IsEntry(line) THEN 2
    ELSE IF Indent(line) >= 10 /\ Indent(line) <= 12 /\ IsEntry(line) THEN 3
    ELSE 0

\* What the parser reads off a line: computed once for each line of the pool.
LineInfo ==
    [line \in NavLinePool |->
        [top     |-> IsTopLevel(line),
         skip    |-> IsBlankOrComment(line),
         band    |-> Band(line),
         header  |-> ReHeader(Strip(line)),
         fileref |-> ReFileRef(Strip(line)),
         quoted  |-> ReQuoted(Strip(line))]]

\* os.path.exists(os.path.join(source_dir, filepath))
FileExists(files, filepath) == Join(SourceDir, filepath) \in files

----------------------------------------------------------------------------
(* parse_mkdocs_nav: its updates of the two dicts.                         *)

\* "if dir_path and dir_path not in section_metadata": the directory is new.
IsNewDir(sm, dir_path) == dir_path # <<>> /\ dir_path \notin DOMAIN sm

\* A slip: the "not in section_metadata" test is left out, last seen wins.
TrackDirOverwrite(sm, dir_path, title, weight) ==
    IF dir_path # <<>>
    THEN Put(sm, dir_path, [title |-> title, weight |-> weight])
    ELSE sm

\* Levels 1 and 2: record the directory of a leaf, first seen wins.
TrackDir(sm, dir_path, title, weight) ==
    IF IsNewDir(sm, dir_path)
    THEN Put(sm, dir_path, [title |-> title, weight |-> weight])
    ELSE sm

\* Level 3: record the directory of a leaf when its parent directory is
\* recorded already, first seen wins.
TrackSubDir(sm, dir_path, title, weight) ==
    IF /\ dir_path # <<>>
       /\ Dirname(dir_path) # <<>>
       /\ Dirname(dir_path) \in DOMAIN sm
       /\ dir_path \notin DOMAIN sm
    THEN Put(sm, dir_path, [title |-> title, weight |-> weight])
    ELSE sm

\* A slip: the os.path.exists test is left out.
AddFileUnchecked(fm, files, filepath, meta) == Put(fm, filepath, meta)

\* "if os.path.exists(full_path): file_metadata[filepath] = {...}"
AddFile(fm, files, filepath, meta) ==
    IF FileExists(files, filepath) THEN Put(fm, filepath, meta) ELSE fm

\* The history of the writes to file_metadata.
LogLeaf(log, files, filepath, weight, sec) ==
    IF FileExists(files, filepath)
    THEN Append(log, [path |-> filepath, weight |-> weight, sec |-> sec])
    ELSE log

----------------------------------------------------------------------------
(* parse_mkdocs_nav: the counters.                                         *)

\* A slip: "section_weight = 10" for "section_weight += 10".
SectionStepAssign(w) == WeightStep

\* section_weight += 10
SectionStep(w) == w + WeightStep

\* A slip: "item_weight = 10" for "item_weight += 10", the counter restarts.
ItemStepAssign(w) == WeightStep

\* A slip: "item_weight += 1".
ItemStepOne(w) == w + 1

\* item_weight += 10
ItemStep(w) == w + WeightStep

\* A slip: the missing key is not reported, the parse runs on nothing.
StartOutcomeNoRaise(cfg) == "loop"

\* The outcome of the search for the nav key: the loop, or ValueError.
StartOutcome(cfg) == IF HasNavKey(cfg) THEN "loop" ELSE "raised"

----------------------------------------------------------------------------
(* parse_mkdocs_nav: the initial state and the steps.                      *)

\* The locals of parse_mkdocs_nav before its loop.
ParserFresh ==
    /\ file_metadata = EmptyMap
    /\ section_metadata = EmptyMap
    /\ current_section = None
    /\ current_subsection = None
    /\ current_section_dir = None
    /\ current_subsection_dir = None
    /\ section_weight = 0
    /\ subsection_weight = 0
    /\ item_weight = 0
    /\ leaf_log = <<>>

\* No document is being transformed.
TextIdle ==
    /\ content = <<>>
    /\ before = <<>>
    /\ snippet_files = {}
    /\ missing_snippets = <<>>
    /\ md_filename = <<>>
    /\ include_log = <<>>

\* No asset was looked up, no snippet copied, and main's loop has not begun.
RestIdle ==
    /\ assets_tree = {}
    /\ asset_calls = <<>>
    /\ assets_tracking = EmptyMap
    /\ snippet_source = [exists |-> FALSE, files |-> EmptyMap]
    /\ snippet_copies = EmptyMap
    /\ unmatched_files = {}
    /\ queue = <<>>
    /\ converted_count = 0
    /\ converted_matched = 0
    /\ converted_unmatched = 0
    /\ error_count = 0
    /\ attempts = <<>>
    /\ index_files = {}

InitNav ==
    /\ pc = "start"
    /\ config \in ConfigChoices
    /\ source_files \in TreeChoices
    /\ scripted \in BOOLEAN
    /\ lines = <<>>
    /\ ParserFresh
    /\ TextIdle
    /\ RestIdle

parserState ==
    <<file_metadata, section_metadata, current_section, current_subsection,
      current_section_dir, current_subsection_dir, section_weight,
      subsection_weight, item_weight, leaf_log>>

\* The nav key is searched for; without it the parse raises ValueError, which
\* main does not catch.
ParseStart ==
    /\ pc = "start"
    /\ pc' = StartOutcome(config)
    /\ UNCHANGED <<config, source_files, scripted, lines, parserState, textVars, restVars>>

\* The loop has a next line, and it is this one.
IsNextLine(line) ==
    /\ pc = "loop"
    /\ IF scripted
       THEN Len(lines) < Len(ExampleNav) /\ line = ExampleNav[Len(lines) + 1]
       ELSE Len(lines) < MaxLines

\* The loop takes its next line.
Reads(line) ==
    /\ lines' = Append(lines, line)
    /\ UNCHANGED <<config, source_files, scripted, textVars, restVars>>

\* A non-blank line without indentation: break.
TopLevelKey(line) ==
    /\ IsNextLine(line)
    /\ LineInfo[line].top
    /\ Reads(line)
    /\ pc' = "done"
    /\ UNCHANGED parserState

\* A blank line or a comment: continue.
SkipLine(line) ==
    /\ IsNextLine(line)
    /\ ~LineInfo[line].top
    /\ LineInfo[line].skip
    /\ Reads(line)
    /\ UNCHANGED <<pc, parserState>>

\* A line no branch of the if/elif chain takes.
IgnoredLine(line) ==
    /\ IsNextLine(line)
    /\ ~LineInfo[line].top
    /\ ~LineInfo[line].skip
    /\ LineInfo[line].band = 0
    /\ Reads(line)
    /\ UNCHANGED <<pc, parserState>>

\* Level 1: a section heading, or a file at section level.
Level1Entry(line) ==
    LET info == LineInfo[line]
        sw   == SectionStep(section_weight)
    IN  /\ IsNextLine(line)
        /\ ~info.top /\ ~info.skip /\ info.band = 1
        /\ Reads(line)
        /\ section_weight' = sw
        /\ item_weight' = sw
        /\ subsection_weight' = 0
        /\ UNCHANGED pc
        /\ IF info.header.ok
           THEN /\ current_section' = info.header.g1
                /\ current_subsection' = None
                /\ current_section_dir' = None
                /\ current_subsection_dir' = None
                /\ UNCHANGED <<file_metadata, section_metadata, leaf_log>>
           ELSE IF info.fileref.ok
           THEN LET title    == info.fileref.g1
                    filepath == info.fileref.g2
                    dir_path == Dirname(filepath)
                IN  /\ current_section' = title
                    /\ current_subsection' = None
                    /\ section_metadata' = TrackDir(section_metadata, dir_path, title, sw)
                    /\ current_section_dir' =
                           IF IsNewDir(section_metadata, dir_path)
                           THEN dir_path ELSE current_section_dir
                    /\ file_metadata' =
                           AddFile(file_metadata, source_files, filepath,
                                   [title |-> title, section |-> title,
                                    subsection |-> None, weight |-> sw])
                    /\ leaf_log' = LogLeaf(leaf_log, source_files, filepath, sw, sw)
                    /\ UNCHANGED current_subsection_dir
           ELSE UNCHANGED <<file_metadata, section_metadata, leaf_log,
                            current_section, current_subsection,
                            current_section_dir, current_subsection_dir>>

\* Level 2: a subsection heading, or a file of the section.
Level2Entry(line) ==
    LET info == LineInfo[line]
        iw   == ItemStep(item_weight)
    IN  /\ IsNextLine(line)
        /\ ~info.top /\ ~info.skip /\ info.band = 2
        /\ Reads(line)
        /\ item_weight' = iw
        /\ UNCHANGED <<pc, section_weight, current_section, current_subsection_dir>>
        /\ IF info.header.ok
           THEN /\ current_subsection' = info.header.g1
                /\ subsection_weight' = iw
                /\ current_subsection_dir' = None
                /\ UNCHANGED <<file_metadata, section_metadata, leaf_log,
                               current_section_dir>>
           ELSE IF info.fileref.ok \/ info.quoted.ok
           THEN LET filepath == IF info.fileref.ok THEN info.fileref.g2
                                ELSE info.quoted.g1
                    title    == IF info.fileref.ok THEN info.fileref.g1
                                ELSE QuotedTitle(filepath)
                    dir_path == Dirname(filepath)
                    owner    == IF Truthy(current_subsection)
                                THEN current_subsection ELSE current_section
                IN  /\ section_metadata' =
                           TrackDir(section_metadata, dir_path, owner, section_weight)
                    /\ current_section_dir' =
                           IF IsNewDir(section_metadata, dir_path)
                           THEN dir_path ELSE current_section_dir
                    /\ file_metadata' =
                           AddFile(file_metadata, source_files, filepath,
                                   [title |-> title, section |-> current_section,
                                    subsection |-> current_subsection,
                                    weight |-> iw])
                    /\ leaf_log' = LogLeaf(leaf_log, source_files, filepath, iw,
                                           section_weight)
                    /\ UNCHANGED <<current_subsection, subsection_weight>>
           ELSE UNCHANGED <<file_metadata, section_metadata, leaf_log,
                            current_subsection, subsection_weight,
                            current_section_dir>>

\* Level 3: a file of the subsection.
Level3Entry(line) ==
    LET info == LineInfo[line]
        iw   == ItemStep(item_weight)
    IN  /\ IsNextLine(line)
        /\ ~info.top /\ ~info.skip /\ info.band = 3
        /\ Reads(line)
        /\ item_weight' = iw
        /\ UNCHANGED <<pc, section_weight, subsection_weight, current_section,
                       current_subsection, current_section_dir,
                       current_subsection_dir>>
        /\ IF info.fileref.ok \/ info.quoted.ok
           THEN LET filepath == IF info.fileref.ok THEN info.fileref.g2
                                ELSE info.quoted.g1
                    title    == IF info.fileref.ok THEN info.fileref.g1
                                ELSE QuotedTitle(filepath)
                    dir_path == Dirname(filepath)
                    owner    == IF Truthy(current_subsection)
                                THEN current_subsection ELSE title
                IN  /\ section_metadata' =
                           TrackSubDir(section_metadata, dir_path, owner,
                                       subsection_weight)
                    /\ file_metadata' =
                           AddFile(file_metadata, source_files, filepath,
                                   [title |-> title, section |-> current_section,
                                    subsection |-> current_subsection,
                                    weight |-> iw])
                    /\ leaf_log' = LogLeaf(leaf_log, source_files, filepath, iw,
                                           section_weight)
           ELSE UNCHANGED <<file_metadata, section_metadata, leaf_log>>

\* The lines are exhausted: the parse returns.
EndOfLines ==
    /\ pc = "loop"
    /\ scripted => Len(lines) = Len(ExampleNav)
    /\ pc' = "done"
    /\ UNCHANGED <<config, source_files, scripted, lines, parserState, textVars, restVars>>

ReadTopLevelKey == \E line \in NavLinePool : TopLevelKey(line)

ReadSkipLine == \E line \in NavLinePool : SkipLine(line)

ReadIgnoredLine == \E line \in NavLinePool : IgnoredLine(line)

ReadLevel1Entry == \E line \in NavLinePool : Level1Entry(line)

ReadLevel2Entry == \E line \in NavLinePool : Level2Entry(line)

ReadLevel3Entry == \E line \in NavLinePool : Level3Entry(line)

NextNav ==
    \/ ParseStart
    \/ ReadTopLevelKey
    \/ ReadSkipLine
    \/ ReadIgnoredLine
    \/ ReadLevel1Entry
    \/ ReadLevel2Entry
    \/ ReadLevel3Entry
    \/ EndOfLines

SpecNav == InitNav /\ [][NextNav]_vars

----------------------------------------------------------------------------
(* re.sub: the non-overlapping matches of a pattern, leftmost first, are   *)
(* replaced.  A pattern tried at position i of a text gives [end, path]:   *)
(* the last position of the match that starts at i (0: the pattern does    *)
(* not match at i), and the group it captured.                             *)

\* The backquote, which a string of this language cannot hold.
BQ == "backquote"

\* The first position from i on whose character is not in S.
RunEnd(s, i, S) ==
    IF \A k \in i..Len(s) : s[k] \in S THEN Max({i, Len(s) + 1})
    ELSE CHOOSE k \in i..Len(s) : s[k] \notin S /\ AllIn(s, i, k - 1, S)

\* The first position from i on whose character is in S.
RunEndNot(s, i, S) ==
    IF \A k \in i..Len(s) : s[k] \notin S THEN Max({i, Len(s) + 1})
    ELSE CHOOSE k \in i..Len(s) : s[k] \in S /\ \A j \in i..(k - 1) : s[j] \notin S

\* The pattern does not match at this position.  (A pattern without a group
\* is given the empty group s[1..0].)
NoMatchAt == [end |-> 0, path |-> <<>>]

\* The match of a pattern whose group is s[from..to - 1] and whose cursor ended
\* at the position after.
Matched(s, from, to, after) ==
    IF after = 0 THEN NoMatchAt ELSE [end |-> after - 1, path |-> SubSeq(s, from, to - 1)]

\* The parts of a pattern move a cursor over the text: from the position i
\* where the part is to match to the position after what it matched, or to 0
\* when it does not match (and from 0 to 0).  Each quantifier of the patterns
\* below is followed by something its class excludes, so the longest run is
\* the only one the matcher can keep.

\* A literal.
Lit(s, i, p) == IF i > 0 /\ OccursAt(s, p, i) THEN i + Len(p) ELSE 0

\* One character of the class S.
In1(s, i, S) == IF i > 0 /\ i <= Len(s) /\ s[i] \in S THEN i + 1 ELSE 0

\* c?
Opt(s, i, c) == IF i > 0 /\ i <= Len(s) /\ s[i] = c THEN i + 1 ELSE i

\* S* (min = 0) and S+ (min = 1).
Run(s, i, S, min) == IF i > 0 /\ RunEnd(s, i, S) >= i + min THEN RunEnd(s, i, S) ELSE 0

\* [^S]* (min = 0) and [^S]+ (min = 1).
RunNot(s, i, S, min) == IF i > 0 /\ RunEndNot(s, i, S) >= i + min THEN RunEndNot(s, i, S) ELSE 0

\* \s*\n\s* between the positions from and i: a run of whitespace that holds a
\* newline.
NewlineIn(s, from, i) == IF i > 0 /\ ~NoNewline(s, from, i - 1) THEN i ELSE 0

----------------------------------------------------------------------------
(* strip_existing_front_matter.                                            *)

\* "ddd\s*\n" at position i: the positions where it can end.
DelimEnds(s, i, d) ==
    IF OccursAt(s, <<d, d, d>>, i)
    THEN {e \in (i + 3)..Len(s) : s[e] = "\n" /\ AllIn(s, i + 3, e - 1, WS)}
    ELSE {}

\* "\nddd\s*\n": the positions from i on where it can start.
ClosingStarts(s, i, d) ==
    {p \in i..Len(s) : s[p] = "\n" /\ DelimEnds(s, p + 1, d) # {}}

\* r'^ddd\s*\n.*?\nddd\s*\n' with re.DOTALL and without re.MULTILINE: the
\* last position of the match, 0 without a match.  The opening \s* is greedy,
\* the body lazy, the closing \s* greedy.
FrontMatterEnd(s, d) ==
    LET opens == {e \in DelimEnds(s, 1, d) : ClosingStarts(s, e + 1, d) # {}}
    IN  IF opens = {} THEN 0
        ELSE LET p == Min(ClosingStarts(s, Max(opens) + 1, d))
             IN  Max(DelimEnds(s, p + 1, d))

\* re.sub(yaml_pattern, '', content, flags=re.DOTALL)
yaml_pattern(text) ==
    SubSeq(text, FrontMatterEnd(text, "-") + 1, Len(text))

\* re.sub(toml_pattern, '', content, flags=re.DOTALL)
toml_pattern(text) ==
    SubSeq(text, FrontMatterEnd(text, "+") + 1, Len(text))

\* A slip: only the YAML block is looked for.
strip_yaml_only(text) == yaml_pattern(text)

strip_existing_front_matter(text) == toml_pattern(yaml_pattern(text))

----------------------------------------------------------------------------
(* The patterns of clean_markdown_content.                                 *)

\* r'<br\s*/?>' with re.IGNORECASE, at position i.
BrAt(s, i) ==
    Matched(s, 1, 1, In1(s, Opt(s, Run(s, In1(s, In1(s, Lit(s, i, <<"<">>), {"b", "B"}),
                                           {"r", "R"}), WS, 0), "/"), {">"}))

\* style="
StyleOpen == <<"s","t","y","l","e","=","\"">>

\* r'\{:\s*style="[^"]*"\s*\}', at position i.
StyleAt(s, i) ==
    Matched(s, 1, 1, Lit(s, Run(s, Lit(s, RunNot(s, Lit(s, Run(s, Lit(s, i, <<"{", ":">>), WS, 0),
                                                        StyleOpen), {"\""}, 0),
                                       <<"\"">>), WS, 0), <<"}">>))

----------------------------------------------------------------------------
(* The patterns of replace_yaml_includes; the two functions.               *)

\* ["\']
Quotes == {"\"", "'"}

\* include
IncludeWord == <<"i","n","c","l","u","d","e">>

\* The opening fence of a yaml block: three backquotes and yaml.
YamlFence == <<BQ,BQ,BQ,"y","a","m","l">>

\* A fence: three backquotes.
Fence == <<BQ,BQ,BQ>>

\* --8<--
SnippetMarker == <<"-","-","8","<","-","-">>

\* pattern_include, r'{%\s*include\s+["\']([^"\']+)["\']\s*%}', at position i:
\* where its group starts.
IncludePath(s, i) ==
    In1(s, Run(s, Lit(s, Run(s, Lit(s, i, <<"{", "%">>), WS, 0), IncludeWord), WS, 1), Quotes)

\* pattern_include at position i: the position after the group.
IncludePathEnd(s, i) == RunNot(s, IncludePath(s, i), Quotes, 1)

\* pattern_include at position i: the position after the match.
IncludeEnd(s, i) ==
    Lit(s, Run(s, In1(s, IncludePathEnd(s, i), Quotes), WS, 0), <<"%", "}">>)

pattern_include(s, i) ==
    Matched(s, IncludePath(s, i), IncludePathEnd(s, i), IncludeEnd(s, i))

\* pattern_yaml_block,
\* r'(three backquotes)yaml\s*\n\s*{%\s*include\s+["\']([^"\']+)["\']\s*%}[^\n]*\n\s*(three backquotes)',
\* at position i: where its include starts.
YamlBlockInclude(s, i) ==
    NewlineIn(s, i + Len(YamlFence), Run(s, Lit(s, i, YamlFence), WS, 0))

\* pattern_yaml_block at position i: the position after the match.
YamlBlockEnd(s, i) ==
    Lit(s, Run(s, Lit(s, RunNot(s, IncludeEnd(s, YamlBlockInclude(s, i)), {"\n"}, 0),
                      <<"\n">>), WS, 0), Fence)

pattern_yaml_block(s, i) ==
    Matched(s, IncludePath(s, YamlBlockInclude(s, i)),
            IncludePathEnd(s, YamlBlockInclude(s, i)), YamlBlockEnd(s, i))

\* pattern_mkdocs, r'--8<--\s+"([^"]+)"', at position i: where its group
\* starts.
MkdocsPath(s, i) == Lit(s, Run(s, Lit(s, i, SnippetMarker), WS, 1), <<"\"">>)

\* pattern_mkdocs at position i: the position after the group.
MkdocsPathEnd(s, i) == RunNot(s, MkdocsPath(s, i), {"\""}, 1)

pattern_mkdocs(s, i) ==
    Matched(s, MkdocsPath(s, i), MkdocsPathEnd(s, i), Lit(s, MkdocsPathEnd(s, i), <<"\"">>))

\* {{< readfile file=/snippets/
DirectiveOpen == <<"{","{","<"," ","r","e","a","d","f","i","l","e"," ","f","i","l","e","=","/","s","n","i","p","p","e","t","s","/">>

\*  code="true" lang="yaml" >}}
DirectiveClose == <<" ","c","o","d","e","=","\"","t","r","u","e","\""," ","l","a","n","g","=","\"","y","a","m","l","\""," ",">","}","}">>

\* The shortcode that replaces an include of this path.
Directive(snippet_path) == DirectiveOpen \o snippet_path \o DirectiveClose

\* A slip: the directories of the path are dropped.
replace_include_basename(snippet_path) == Directive(Basename(snippet_path))

\* replace_include: what it returns.
replace_include(snippet_path) == Directive(snippet_path)

\* snippet_dest_folder
SnippetDest == <<"/","s","i","t","e","/","s","n","i","p","p","e","t","s">>

\* "os.path.exists(full_snippet_path)"
SnippetExists(files, snippet_path) == Join(SnippetDest, snippet_path) \in files

\* replace_include: what it appends to missing_snippets.
RecordMissing(missing, files, snippet_path, md) ==
    IF SnippetExists(files, snippet_path) THEN missing
    ELSE Append(missing, [snippet |-> snippet_path, referenced_in |-> md])

\* The patterns of rewrite_asset_paths.
\* r'!\[([^\]]*)\]\(([^)]+)\)': the start of group 2.
ImgMdTarget(s, i) == Lit(s, RunNot(s, Lit(s, i, <<"!", "[">>), {"]"}, 0), <<"]", "(">>)

\* r'!\[([^\]]*)\]\(([^)]+)\)'; the path is group 2.
ImgMdAt(s, i) ==
    Matched(s, ImgMdTarget(s, i), RunNot(s, ImgMdTarget(s, i), {")"}, 1),
            Lit(s, RunNot(s, ImgMdTarget(s, i), {")"}, 1), <<")">>))

\* r'<img\s+src="([^"]+)"' and its single-quoted twin: the start of group 1.
ImgTagTarget(s, i, q) ==
    Lit(s, Run(s, Lit(s, i, <<"<", "i", "m", "g">>), WS, 1), <<"s", "r", "c", "=", q>>)

\* r'<img\s+src="([^"]+)"' and its single-quoted twin; the path is group 1.
ImgTagAt(s, i, q) ==
    Matched(s, ImgTagTarget(s, i, q), RunNot(s, ImgTagTarget(s, i, q), {q}, 1),
            Lit(s, RunNot(s, ImgTagTarget(s, i, q), {q}, 1), <<q>>))

\* The pattern of this name, tried at position i; it can only match where its
\* first character is.
PatternAt(pattern, s, i) ==
    CASE pattern = "br" /\ s[i] = "<" -> BrAt(s, i)
      [] pattern = "style" /\ s[i] = "{" -> StyleAt(s, i)
      [] pattern = "pattern_yaml_block" /\ s[i] = BQ -> pattern_yaml_block(s, i)
      [] pattern = "pattern_include" /\ s[i] = "{" -> pattern_include(s, i)
      [] pattern = "pattern_mkdocs" /\ s[i] = "-" -> pattern_mkdocs(s, i)
      [] pattern = "img_md" /\ s[i] = "!" -> ImgMdAt(s, i)
      [] pattern = "img_dq" /\ s[i] = "<" -> ImgTagAt(s, i, "\"")
      [] pattern = "img_sq" /\ s[i] = "<" -> ImgTagAt(s, i, "'")
      [] OTHER -> NoMatchAt

\* The positions from i on where the pattern of this name matches.
MatchesFrom(pattern, s, i) == {j \in i..Len(s) : PatternAt(pattern, s, j).end >= j}

\* The matches re.sub finds for the pattern of this name from position i on:
\* the leftmost one, then those after its end.
RECURSIVE Find(_, _, _)
Find(pattern, s, i) ==
    LET from == MatchesFrom(pattern, s, i)
    IN  IF from = {} THEN <<>>
        ELSE LET j == Min(from)
                 r == PatternAt(pattern, s, j)
             IN  <<[start |-> j, end |-> r.end, path |-> r.path]>>
                     \o Find(pattern, s, r.end + 1)

\* The groups of the matches, in the order re.sub finds them.
Captured(ms) == [k \in 1..Len(ms) |-> ms[k].path]

\* What re.sub puts in the place of a match: the result of replace_include,
\* or the empty string.
Repl(repl, path) == IF repl = "replace_include" THEN replace_include(path) ELSE <<>>

\* The text s from position i on, the matches ms[k], ms[k + 1], ... replaced.
RECURSIVE Spliced(_, _, _, _, _)
Spliced(s, ms, repl, k, i) ==
    IF k > Len(ms) THEN SubSeq(s, i, Len(s))
    ELSE SubSeq(s, i, ms[k].start - 1) \o Repl(repl, ms[k].path)
             \o Spliced(s, ms, repl, k + 1, ms[k].end + 1)

\* A slip: re.sub(pattern, repl, s, count=1), only the first match is replaced.
re_sub_first(pattern, repl, s) ==
    LET ms == Find(pattern, s, 1)
    IN  Spliced(s, IF ms = <<>> THEN ms ELSE <<ms[1]>>, repl, 1, 1)

\* re.sub(pattern, repl, s)
re_sub(pattern, repl, s) == Spliced(s, Find(pattern, s, 1), repl, 1, 1)

clean_markdown_content(text) == re_sub("style", "", re_sub("br", "", text))

\* The calls of replace_include(path), in order, on the list of missing
\* snippets.
RECURSIVE RecordAll(_, _, _, _)
RecordAll(missing, files, paths, md) ==
    IF paths = <<>> THEN missing
    ELSE RecordAll(RecordMissing(missing, files, Head(paths), md), files, Tail(paths), md)

\* modified_content = re.sub(pattern, replace_include, modified_content), for
\* each pattern in turn: every pass works on the text the pass before it
\* left, and calls replace_include on each of its matches.
RECURSIVE IncludePasses(_, _, _, _, _, _)
IncludePasses(patterns, text, calls, files, missing, md) ==
    IF patterns = <<>>
    THEN [content |-> text,
          calls |-> calls,
          missing_snippets |-> RecordAll(missing, files, calls, md)]
    ELSE IncludePasses(Tail(patterns),
                       re_sub(Head(patterns), "replace_include", text),
                       calls \o Captured(Find(Head(patterns), text, 1)),
                       files, missing, md)

\* A slip: the snippet markers are substituted first.
replace_yaml_includes_markers_first(text, files, missing, md) ==
    IncludePasses(<<"pattern_mkdocs", "pattern_yaml_block", "pattern_include">>,
                  text, <<>>, files, missing, md)

\* replace_yaml_includes: the three substitutions, one after the other.  The
\* result is the text, the paths replace_include was called with, and the
\* list of missing snippets.
replace_yaml_includes(text, files, missing, md) ==
    IncludePasses(<<"pattern_yaml_block", "pattern_include", "pattern_mkdocs">>,
                  text, <<>>, files, missing, md)

----------------------------------------------------------------------------
(* The documents the text transforms are applied to.                       *)

\* The texts made of at most n of these pieces, one after the other.
RECURSIVE Texts(_, _)
Texts(pieces, n) ==
    IF n = 0 THEN {<<>>}
    ELSE LET shorter == Texts(pieces, n - 1)
         IN  shorter \cup {d \o p : d \in shorter, p \in pieces}

\* The lines of the documents whose front matter is stripped.
StripPieces ==
    {
     \* ---\n
     <<"-","-","-","\n">>,
     \* +++\n
     <<"+","+","+","\n">>,
     \* k: v\n
     <<"k",":"," ","v","\n">>,
     \* \n
     <<"\n">>
    }

StripDocs == Texts(StripPieces, MaxStripLines)

\* The template markers that open and close a raw block, with and without
\* the whitespace-control hyphens.
RawMarkers ==
    {
     \* {% raw %}
     <<"{","%"," ","r","a","w"," ","%","}">>,
     \* {%- raw %}
     <<"{","%","-"," ","r","a","w"," ","%","}">>,
     \* {% raw -%}
     <<"{","%"," ","r","a","w"," ","-","%","}">>,
     \* {%- raw -%}
     <<"{","%","-"," ","r","a","w"," ","-","%","}">>,
     \* {% endraw %}
     <<"{","%"," ","e","n","d","r","a","w"," ","%","}">>,
     \* {%- endraw %}
     <<"{","%","-"," ","e","n","d","r","a","w"," ","%","}">>,
     \* {% endraw -%}
     <<"{","%"," ","e","n","d","r","a","w"," ","-","%","}">>,
     \* {%- endraw -%}
     <<"{","%","-"," ","e","n","d","r","a","w"," ","-","%","}">>
    }

\* The pieces of the documents that are cleaned.
CleanPieces ==
    {
     \* <br>
     <<"<","b","r",">">>,
     \* <BR />
     <<"<","B","R"," ","/",">">>,
     \* <br/>
     <<"<","b","r","/",">">>,
     \* <b>
     <<"<","b",">">>,
     \* {: style="width:70%;"}
     <<"{",":"," ","s","t","y","l","e","=","\"","w","i","d","t","h",":","7","0","%",";","\"","}">>,
     \* {: class="x"}
     <<"{",":"," ","c","l","a","s","s","=","\"","x","\"","}">>,
     \* a v1\n
     <<"a"," ","v","1","\n">>,
     \* {{ "" }}
     <<"{","{"," ","\"","\""," ","}","}">>
    } \cup RawMarkers

CleanDocs == Texts(CleanPieces, MaxCleanPieces)

\* '''yaml\n{% include 'a.yaml' %}\n'''\n  (' stands for the backquote)
I_Fenced ==
    <<BQ,BQ,BQ,"y","a","m","l","\n","{","%"," ","i","n","c","l","u","d","e"," ","'","a",".","y","a","m","l","'"," ","%","}","\n",BQ,BQ,BQ,"\n">>

\* '''yaml\n{% include "d/b.yaml" %}:\n'''\n  (' stands for the backquote)
I_FencedTrail ==
    <<BQ,BQ,BQ,"y","a","m","l","\n","{","%"," ","i","n","c","l","u","d","e"," ","\"","d","/","b",".","y","a","m","l","\""," ","%","}",":","\n",BQ,BQ,BQ,"\n">>

\* ''' yaml\n{% include 'a.yaml' %}\n'''\n  (' stands for the backquote)
I_FencedSpace ==
    <<BQ,BQ,BQ," ","y","a","m","l","\n","{","%"," ","i","n","c","l","u","d","e"," ","'","a",".","y","a","m","l","'"," ","%","}","\n",BQ,BQ,BQ,"\n">>

\* The pieces of the documents whose includes are replaced.
IncludePieces ==
    {
     \* {% include 'd/b.yaml' %}\n
     <<"{","%"," ","i","n","c","l","u","d","e"," ","'","d","/","b",".","y","a","m","l","'"," ","%","}","\n">>,
     \* --8<-- "c.yaml"\n
     <<"-","-","8","<","-","-"," ","\"","c",".","y","a","m","l","\"","\n">>,
     \* text\n
     <<"t","e","x","t","\n">>,
     \* '''yaml\n
     <<BQ,BQ,BQ,"y","a","m","l","\n">>,
     \* '''\n
     <<BQ,BQ,BQ,"\n">>
    } \cup {I_Fenced, I_FencedTrail, I_FencedSpace}

IncludeDocs == Texts(IncludePieces, MaxIncludePieces)

\* The files under the snippet destination folder; the includes name them by
\* their path relative to it.
SnippetTreeChoices ==
    {
     \* a.yaml, d/b.yaml and c.yaml
     {<<"/","s","i","t","e","/","s","n","i","p","p","e","t","s","/","a",".","y","a","m","l">>,
      <<"/","s","i","t","e","/","s","n","i","p","p","e","t","s","/","d","/","b",".","y","a","m","l">>,
      <<"/","s","i","t","e","/","s","n","i","p","p","e","t","s","/","c",".","y","a","m","l">>},
     \* a.yaml
     {<<"/","s","i","t","e","/","s","n","i","p","p","e","t","s","/","a",".","y","a","m","l">>},
     {}
    }

\* intro.md
M_Intro ==
    <<"i","n","t","r","o",".","m","d">>

\* usage.md
M_Usage ==
    <<"u","s","a","g","e",".","m","d">>

\* The list of missing snippets as the documents converted earlier left it.
EarlierMissing == {<<>>, <<[snippet |-> <<"z", ".", "y", "a", "m", "l">>, referenced_in |-> M_Usage]>>}

----------------------------------------------------------------------------
(* The text transforms, each applied on its own to a document.             *)

\* No configuration is being parsed.
NavIdle ==
    /\ pc = "start"
    /\ config = <<>>
    /\ source_files = {}
    /\ scripted = FALSE
    /\ lines = <<>>
    /\ ParserFresh

InitStrip ==
    /\ NavIdle
    /\ RestIdle
    /\ content \in StripDocs
    /\ before = <<>>
    /\ snippet_files = {}
    /\ missing_snippets = <<>>
    /\ md_filename = <<>>
    /\ include_log = <<>>

\* content = strip_existing_front_matter(content)
StripFrontMatter ==
    /\ Len(before) < MaxPasses
    /\ content' = strip_existing_front_matter(content)
    /\ before' = Append(before, content)
    /\ UNCHANGED <<snippet_files, missing_snippets, md_filename, include_log, navVars,
                   restVars>>

NextStrip == StripFrontMatter

SpecStrip == InitStrip /\ [][NextStrip]_vars

InitClean ==
    /\ NavIdle
    /\ RestIdle
    /\ content \in CleanDocs
    /\ before = <<>>
    /\ snippet_files = {}
    /\ missing_snippets = <<>>
    /\ md_filename = <<>>
    /\ include_log = <<>>

\* content = clean_markdown_content(content)
CleanMarkdown ==
    /\ before = <<>>
    /\ content' = clean_markdown_content(content)
    /\ before' = Append(before, content)
    /\ UNCHANGED <<snippet_files, missing_snippets, md_filename, include_log, navVars,
                   restVars>>

NextClean == CleanMarkdown

SpecClean == InitClean /\ [][NextClean]_vars

InitIncludes ==
    /\ NavIdle
    /\ RestIdle
    /\ content \in IncludeDocs
    /\ before = <<>>
    /\ snippet_files \in SnippetTreeChoices
    /\ missing_snippets \in EarlierMissing
    /\ md_filename = M_Intro
    /\ include_log = <<>>

\* content = replace_yaml_includes(content, snippet_dest_folder,
\*                                 missing_snippets, md_filename)
ReplaceYamlIncludes ==
    /\ before = <<>>
    /\ \E r \in {replace_yaml_includes(content, snippet_files, missing_snippets, md_filename)} :
          /\ content' = r.content
          /\ missing_snippets' = r.missing_snippets
          /\ include_log' = include_log \o r.calls
    /\ before' = Append(before, content)
    /\ UNCHANGED <<snippet_files, md_filename, navVars, restVars>>

NextIncludes == ReplaceYamlIncludes

SpecIncludes == InitIncludes /\ [][NextIncludes]_vars

----------------------------------------------------------------------------
(* copy_snippets_folder.                                                   *)

\* The first component of a relative path: the item os.listdir returns.
TopItem(p) ==
    IF \E i \in 1..Len(p) : p[i] = "/"
    THEN SubSeq(p, 1, Min({i \in 1..Len(p) : p[i] = "/"}) - 1)
    ELSE p

\* The path names a file directly in the folder: os.path.isfile(src_item).
IsTopFile(p) == TopItem(p) = p

\* The paths shutil.rmtree(dst_item) removes: those under a directory that
\* the source folder has too.
Removed(src, dst) ==
    {p \in DOMAIN dst : ~IsTopFile(p) /\ \E q \in DOMAIN src : ~IsTopFile(q) /\ TopItem(q) = TopItem(p)}

\* shutil.copy2 and shutil.copytree: the destination holds every file of the
\* source folder with the bytes it has there, and what it held elsewhere.
CopiedTree(src, dst) ==
    [p \in (DOMAIN dst \ Removed(src, dst)) \cup DOMAIN src |->
        IF p \in DOMAIN src THEN src[p] ELSE dst[p]]

\* The texts of the snippet files.
SnippetTexts ==
    {
     \* {% raw %}\nurl: "{{ .key }}"\n{%- endraw %}\n
     <<"{","%"," ","r","a","w"," ","%","}","\n","u","r","l",":"," ","\"","{","{"," ",".","k","e","y"," ","}","}","\"","\n","{","%","-"," ","e","n","d","r","a","w"," ","%","}","\n">>,
     \* kind: Secret\n
     <<"k","i","n","d",":"," ","S","e","c","r","e","t","\n">>,
     \* url: "{{ .key }}"\n
     <<"u","r","l",":"," ","\"","{","{"," ",".","k","e","y"," ","}","}","\"","\n">>,
     \* a: {%- raw -%}b{% endraw -%}\n
     <<"a",":"," ","{","%","-"," ","r","a","w"," ","-","%","}","b","{","%"," ","e","n","d","r","a","w"," ","-","%","}","\n">>
    }

\* The files of a snippets folder, by their path relative to it.
SnippetNames == {<<"a",".","y","a","m","l">>, <<"d","/","b",".","y","a","m","l">>}

\* No snippets folder: os.path.exists(snippets_path) is false.
NoSnippets == [exists |-> FALSE, files |-> EmptyMap]

\* The snippets folders of the source directory.
SnippetSourceChoices ==
    {NoSnippets} \cup
    {[exists |-> TRUE, files |-> f] :
        f \in UNION {[names -> SnippetTexts] : names \in SUBSET SnippetNames}}

\* What the destination folder holds before the copy.
SnippetDestChoices ==
    {EmptyMap,
     <<"d","/","o","l","d",".","y","a","m","l">> :> <<"k","i","n","d",":"," ","S","e","c","r","e","t","\n">>,
     <<"a",".","y","a","m","l">> :> <<"k","i","n","d",":"," ","S","e","c","r","e","t","\n">>}

InitCopy ==
    /\ pc = "copy"
    /\ config = <<>>
    /\ source_files = {}
    /\ scripted = FALSE
    /\ lines = <<>>
    /\ ParserFresh
    /\ TextIdle
    /\ assets_tree = {}
    /\ asset_calls = <<>>
    /\ assets_tracking = EmptyMap
    /\ snippet_source \in SnippetSourceChoices
    /\ snippet_copies \in SnippetDestChoices
    /\ unmatched_files = {}
    /\ queue = <<>>
    /\ converted_count = 0
    /\ converted_matched = 0
    /\ converted_unmatched = 0
    /\ error_count = 0
    /\ attempts = <<>>
    /\ index_files = {}

\* copy_snippets_folder(args.source, args.snippet_destination_folder), the
\* first thing main does; without a snippets folder nothing is copied.
CopySnippetsFolder ==
    /\ pc = "copy"
    /\ pc' = "start"
    /\ snippet_copies' =
           IF snippet_source.exists
           THEN CopiedTree(snippet_source.files, snippet_copies)
           ELSE snippet_copies
    /\ UNCHANGED <<config, source_files, scripted, lines, parserState, textVars,
                   assetVars, snippet_source, mainVars>>

NextCopy == CopySnippetsFolder

SpecCopy == InitCopy /\ [][NextCopy]_vars

----------------------------------------------------------------------------
(* find_asset_in_folder.                                                   *)

\* The characters of code 32 to 126, in the order of their codes.
Ascii ==
    <<" ","!","\"","#","$","%","&","'","(",")","*","+",",","-",".","/",
      "0","1","2","3","4","5","6","7","8","9",":",";","<","=",">","?",
      "@","A","B","C","D","E","F","G","H","I","J","K","L","M","N","O",
      "P","Q","R","S","T","U","V","W","X","Y","Z","[","\\","]","^","_",
      BQ,"a","b","c","d","e","f","g","h","i","j","k","l","m","n","o",
      "p","q","r","s","t","u","v","w","x","y","z","{","|","}","~">>

\* chr(n); a character outside the table is one atom.
Chr(n) == IF n \in 32..126 THEN Ascii[n - 31] ELSE "chr"

\* ord(c), for a character of the table.
Ord(c) == 31 + CHOOSE i \in 1..Len(Ascii) : Ascii[i] = c

HexDigits == <<"0","1","2","3","4","5","6","7","8","9","A","B","C","D","E","F">>

IsHex(c) == \E i \in 1..16 : HexDigits[i] = ToUpper(c)

HexVal(c) == (CHOOSE i \in 1..16 : HexDigits[i] = ToUpper(c)) - 1

\* urllib.parse.unquote: a percent sign followed by two hexadecimal digits is
\* the character of that code; any other text stands as it is.
RECURSIVE unquote(_)
unquote(s) ==
    IF s = <<>> THEN <<>>
    ELSE IF s[1] = "%" /\ Len(s) >= 3 /\ IsHex(s[2]) /\ IsHex(s[3])
    THEN <<Chr(16 * HexVal(s[2]) + HexVal(s[3]))>> \o unquote(SubSeq(s, 4, Len(s)))
    ELSE <<s[1]>> \o unquote(Tail(s))

\* s.replace(old, new): the occurrences of old from the left, not overlapping.
RECURSIVE StrReplace(_, _, _)
StrReplace(s, old, new) ==
    IF ~Contains(s, old) THEN s
    ELSE LET i == Min({j \in 1..Len(s) : OccursAt(s, old, j)})
         IN  SubSeq(s, 1, i - 1) \o new
                 \o StrReplace(SubSeq(s, i + Len(old), Len(s)), old, new)

\* args.assets_folder
AssetsFolder == <<"/","s","t","a","t","i","c">>

\* asset_file.relative_to(assets_path)
RelativeTo(p, root) == SubSeq(p, Len(root) + 2, Len(p))

\* An assets folder: photos/My Pic.png
PhotosTree ==
    {[path |-> <<"/","s","t","a","t","i","c","/","p","h","o","t","o","s">>, is_file |-> FALSE],
     [path |-> <<"/","s","t","a","t","i","c","/","p","h","o","t","o","s","/","M","y"," ","P","i","c",".","p","n","g">>, is_file |-> TRUE]}

\* The entries of the assets folder: files and directories.
AssetTreeChoices ==
    {
     PhotosTree,
     \* a/logo.png and b/logo.png, and a directory named logo.png
     {[path |-> <<"/","s","t","a","t","i","c","/","a">>, is_file |-> FALSE],
      [path |-> <<"/","s","t","a","t","i","c","/","b">>, is_file |-> FALSE],
      [path |-> <<"/","s","t","a","t","i","c","/","l","o","g","o",".","p","n","g">>, is_file |-> FALSE],
      [path |-> <<"/","s","t","a","t","i","c","/","a","/","l","o","g","o",".","p","n","g">>, is_file |-> TRUE],
      [path |-> <<"/","s","t","a","t","i","c","/","b","/","l","o","g","o",".","p","n","g">>, is_file |-> TRUE]},
     \* "a%20b.png", "a b.png" and "c%2Fd.png"
     {[path |-> <<"/","s","t","a","t","i","c","/","a","%","2","0","b",".","p","n","g">>, is_file |-> TRUE],
      [path |-> <<"/","s","t","a","t","i","c","/","a"," ","b",".","p","n","g">>, is_file |-> TRUE],
      [path |-> <<"/","s","t","a","t","i","c","/","c","%","2","F","d",".","p","n","g">>, is_file |-> TRUE]},
     \* a file named img
     {[path |-> <<"/","s","t","a","t","i","c","/","i","m","g">>, is_file |-> TRUE]}
    }

\* The position of the entry of this path in a listing.
PositionOf(seq, p) == CHOOSE k \in 1..Len(seq) : seq[k].path = p

\* assets_path.rglob('*'): the entries of the folder in the order os.scandir
\* lists them, then those of each of its directories, in the order the
\* directories were listed.  os.scandir lists the entries of a directory in
\* an order that the file system chooses.
Rglob(tree) ==
    {seq \in [1..Cardinality(tree) -> tree] :
        /\ \A i, j \in 1..Cardinality(tree) : i # j => seq[i] # seq[j]
        /\ \A i, j \in 1..Cardinality(tree) :
              i < j =>
                  LET di == Dirname(seq[i].path)
                      dj == Dirname(seq[j].path)
                  IN  /\ dj = AssetsFolder => di = AssetsFolder
                      /\ di # AssetsFolder /\ dj # AssetsFolder /\ di # dj
                             => PositionOf(seq, di) < PositionOf(seq, dj)}

\* The listings rglob can give of each folder: computed once.
Listings == [tree \in AssetTreeChoices |-> Rglob(tree)]

\* The positions of a listing whose entry is a file of this name, or of the
\* name decoded.
AssetMatches(asset_filename, listing) ==
    {i \in 1..Len(listing) :
        /\ listing[i].is_file
        /\ \/ Basename(listing[i].path) = asset_filename
           \/ Basename(listing[i].path) = unquote(asset_filename)}

\* A slip: only the decoded name is compared.
find_asset_decoded_only(asset_filename, listing) ==
    LET hits == {i \in 1..Len(listing) :
                    /\ listing[i].is_file
                    /\ Basename(listing[i].path) = unquote(asset_filename)}
    IN  IF hits = {} THEN None
        ELSE <<"/">> \o StrReplace(RelativeTo(listing[Min(hits)].path, AssetsFolder),
                                   <<" ">>, <<"%", "2", "0">>)

\* find_asset_in_folder(asset_filename, assets_folder), the folder listed in
\* this order.
find_asset_in_folder(asset_filename, listing) ==
    IF AssetMatches(asset_filename, listing) = {} THEN None
    ELSE <<"/">> \o StrReplace(RelativeTo(listing[Min(AssetMatches(asset_filename, listing))].path,
                                          AssetsFolder),
                               <<" ">>, <<"%", "2", "0">>)

\* The names looked up.
AssetNames ==
    {<<"M","y","%","2","0","P","i","c",".","p","n","g">>, <<"M","y"," ","P","i","c",".","p","n","g">>, <<"l","o","g","o",".","p","n","g">>, <<"a","%","2","0","b",".","p","n","g">>, <<"a"," ","b",".","p","n","g">>, <<"n","o","n","e",".","p","n","g">>,
     <<"c","%","2","F","d",".","p","n","g">>}

\* A lookup of an asset, on its own.
InitAssets ==
    /\ NavIdle
    /\ TextIdle
    /\ assets_tree \in AssetTreeChoices
    /\ asset_calls = <<>>
    /\ assets_tracking = EmptyMap
    /\ snippet_source = NoSnippets
    /\ snippet_copies = EmptyMap
    /\ unmatched_files = {}
    /\ queue = <<>>
    /\ converted_count = 0
    /\ converted_matched = 0
    /\ converted_unmatched = 0
    /\ error_count = 0
    /\ attempts = <<>>
    /\ index_files = {}

\* new_path = find_asset_in_folder(asset_filename, assets_folder)
FindAsset ==
    /\ Len(asset_calls) < MaxLookups
    /\ \E asset_filename \in AssetNames, listing \in Listings[assets_tree] :
          asset_calls' = Append(asset_calls,
                                [asset_filename |-> asset_filename,
                                 listing |-> listing,
                                 result |-> find_asset_in_folder(asset_filename, listing)])
    /\ UNCHANGED <<navVars, textVars, assets_tree, assets_tracking, copyVars, mainVars>>

NextAssets == FindAsset

SpecAssets == InitAssets /\ [][NextAssets]_vars

----------------------------------------------------------------------------
(* rewrite_asset_paths.                                                    *)

\* replace_asset: the path find_asset_in_folder gives for the target of a
\* match; None for a target that is skipped (an http or https URL, a base
\* name that is empty or blank) and for one that is not found.
NewPath(asset_path, listing) ==
    IF \/ StartsWith(asset_path, <<"h","t","t","p",":","/","/">>)
       \/ StartsWith(asset_path, <<"h","t","t","p","s",":","/","/">>)
       \/ Strip(Basename(asset_path)) = <<>>
    THEN None
    ELSE find_asset_in_folder(Basename(asset_path), listing)

\* replace_asset(match): what re.sub puts in the place of the match text.
replace_asset(pattern, text, asset_path, listing) ==
    IF NewPath(asset_path, listing) = None THEN text
    ELSE IF pattern = "img_md"
    THEN SubSeq(text, 1, Len(text) - Len(asset_path) - 1)
             \o NewPath(asset_path, listing) \o <<")">>
    ELSE StrReplace(text, asset_path, NewPath(asset_path, listing))

\* The text s from position i on, the matches ms[k], ms[k + 1], ... replaced
\* by replace_asset.
RECURSIVE AssetSpliced(_, _, _, _, _, _)
AssetSpliced(s, ms, pattern, listing, k, i) ==
    IF k > Len(ms) THEN SubSeq(s, i, Len(s))
    ELSE SubSeq(s, i, ms[k].start - 1)
             \o replace_asset(pattern, SubSeq(s, ms[k].start, ms[k].end), ms[k].path, listing)
             \o AssetSpliced(s, ms, pattern, listing, k + 1, ms[k].end + 1)

\* modified_content = re.sub(pattern, replace_asset, modified_content)
AssetSub(pattern, s, listing) == AssetSpliced(s, Find(pattern, s, 1), pattern, listing, 1, 1)

\* assets_tracking[key].add(md), assets_tracking being a defaultdict(set).
AddTo(tracking, key, md) ==
    Put(tracking, key, (IF key \in DOMAIN tracking THEN tracking[key] ELSE {}) \cup {md})

\* A slip: the asset is tracked before it is looked up, found or not.
TrackAssetAlways(tracking, asset_path, listing, md) ==
    IF \/ StartsWith(asset_path, <<"h","t","t","p",":","/","/">>)
       \/ StartsWith(asset_path, <<"h","t","t","p","s",":","/","/">>)
       \/ Strip(Basename(asset_path)) = <<>>
    THEN tracking
    ELSE AddTo(tracking, unquote(Basename(asset_path)), md)

\* replace_asset: "if new_path: assets_tracking[decoded_filename].add(md_filename)"
TrackAsset(tracking, asset_path, listing, md) ==
    IF NewPath(asset_path, listing) = None THEN tracking
    ELSE AddTo(tracking, unquote(Basename(asset_path)), md)

\* The calls of replace_asset on the targets, in order, on assets_tracking.
RECURSIVE TrackAll(_, _, _, _)
TrackAll(tracking, targets, listing, md) ==
    IF targets = <<>> THEN tracking
    ELSE TrackAll(TrackAsset(tracking, Head(targets), listing, md),
                  Tail(targets), listing, md)

\* "for pattern in patterns: modified_content = re.sub(pattern, replace_asset,
\* modified_content)": every pass works on the text the pass before it left,
\* and calls replace_asset on each of its matches.
RECURSIVE AssetPasses(_, _, _, _, _, _)
AssetPasses(patterns, text, targets, listing, tracking, md) ==
    IF patterns = <<>>
    THEN [content |-> text,
          targets |-> targets,
          assets_tracking |-> TrackAll(tracking, targets, listing, md)]
    ELSE AssetPasses(Tail(patterns),
                     AssetSub(Head(patterns), text, listing),
                     targets \o Captured(Find(Head(patterns), text, 1)),
                     listing, tracking, md)

\* rewrite_asset_paths: the three substitutions, one after the other, the
\* assets folder listed in this order (which file a name resolves to depends
\* on the order; whether it resolves does not).  The result is the text, the
\* targets replace_asset was called with, and assets_tracking.
rewrite_asset_paths(text, listing, tracking, md) ==
    AssetPasses(<<"img_md", "img_dq", "img_sq">>, text, <<>>, listing, tracking, md)

\* The pieces of the documents whose image references are rewritten.
AssetPieces ==
    {
     \* ![x](../pictures/My%20Pic.png)\n
     <<"!","[","x","]","(",".",".","/","p","i","c","t","u","r","e","s","/","M","y","%","2","0","P","i","c",".","p","n","g",")","\n">>,
     \* ![e](http://h/logo.png)\n
     <<"!","[","e","]","(","h","t","t","p",":","/","/","h","/","l","o","g","o",".","p","n","g",")","\n">>,
     \* ![n](none.png)\n
     <<"!","[","n","]","(","n","o","n","e",".","p","n","g",")","\n">>,
     \* ![d](img/)\n
     <<"!","[","d","]","(","i","m","g","/",")","\n">>,
     \* <img src="img/logo.png">\n
     <<"<","i","m","g"," ","s","r","c","=","\"","i","m","g","/","l","o","g","o",".","p","n","g","\"",">","\n">>,
     \* <img  src='https://h/logo.png'>\n
     <<"<","i","m","g"," "," ","s","r","c","=","'","h","t","t","p","s",":","/","/","h","/","l","o","g","o",".","p","n","g","'",">","\n">>,
     \* <img src='My Pic.png'>\n
     <<"<","i","m","g"," ","s","r","c","=","'","M","y"," ","P","i","c",".","p","n","g","'",">","\n">>,
     \* <img src="img">\n
     <<"<","i","m","g"," ","s","r","c","=","\"","i","m","g","\"",">","\n">>,
     \* text\n
     <<"t","e","x","t","\n">>
    }

AssetDocs == Texts(AssetPieces, MaxAssetPieces)

\* assets_tracking as the documents converted earlier left it.
EarlierTracking == {EmptyMap, <<"l","o","g","o",".","p","n","g">> :> {M_Usage}}

InitRewrite ==
    /\ NavIdle
    /\ content \in AssetDocs
    /\ before = <<>>
    /\ snippet_files = {}
    /\ missing_snippets = <<>>
    /\ md_filename = M_Intro
    /\ include_log = <<>>
    /\ assets_tree \in AssetTreeChoices
    /\ asset_calls = <<>>
    /\ assets_tracking \in EarlierTracking
    /\ snippet_source = NoSnippets
    /\ snippet_copies = EmptyMap
    /\ unmatched_files = {}
    /\ queue = <<>>
    /\ converted_count = 0
    /\ converted_matched = 0
    /\ converted_unmatched = 0
    /\ error_count = 0
    /\ attempts = <<>>
    /\ index_files = {}

\* content = rewrite_asset_paths(content, assets_folder, assets_tracking,
\*                               md_filename)
RewriteAssetPaths ==
    /\ before = <<>>
    /\ \E listing \in Listings[assets_tree] :
          \E r \in {rewrite_asset_paths(content, listing, assets_tracking, md_filename)} :
              /\ content' = r.content
              /\ assets_tracking' = r.assets_tracking
              /\ asset_calls' =
                     [k \in 1..Len(r.targets) |->
                         [asset_filename |-> Basename(r.targets[k]),
                          listing |-> listing,
                          result |-> NewPath(r.targets[k], listing)]]
    /\ before' = Append(before, content)
    /\ UNCHANGED <<navVars, snippet_files, missing_snippets, md_filename, include_log,
                   assets_tree, copyVars, mainVars>>

NextRewrite == RewriteAssetPaths

SpecRewrite == InitRewrite /\ [][NextRewrite]_vars

----------------------------------------------------------------------------
(* main: the documents that the navigation does not name.                  *)

\* a < b for two Python strings: by the codes of their characters.
\* The first place where they differ decides; if there is none, the shorter
\* one is the smaller.
StrLess(a, b) ==
    IF \E k \in 1..Len(a) : k <= Len(b) /\ a[k] # b[k]
    THEN Ord(a[Min({k \in 1..Len(a) : k <= Len(b) /\ a[k] # b[k]})])
             < Ord(b[Min({k \in 1..Len(a) : k <= Len(b) /\ a[k] # b[k]})])
    ELSE Len(a) < Len(b)

\* sorted(S), S a set of strings.
RECURSIVE Sorted(_)
Sorted(S) ==
    IF S = {} THEN <<>>
    ELSE LET least == CHOOSE x \in S : \A y \in S \ {x} : StrLess(x, y)
         IN  <<least>> \o Sorted(S \ {least})

\* The documents source_path.rglob('*.md') finds, relative to the source
\* directory.
AllMdFiles(files) ==
    {RelativeTo(p, SourceDir) : p \in {q \in files : EndsMd(q, Len(q))}}

\* max([meta['weight'] for meta in file_metadata.values()]) if file_metadata else 0
MaxWeight(fm) == IF DOMAIN fm = {} THEN 0 ELSE Max({fm[p].weight : p \in DOMAIN fm})

\* A slip: the greatest weight of the navigation is left out.
StartWeightNoMax(max_weight) == 1000

\* unmatched_weight = max_weight + 1000
StartWeight(max_weight) == max_weight + 1000

\* A slip: "unmatched_weight -= 10".
UnmatchedStepDown(w) == w - 10

\* unmatched_weight += 10
UnmatchedStep(w) == w + 10

\* os.path.splitext(filename)[0].replace('-', ' ').replace('_', ' ').title()
UnmatchedTitle(path) ==
    Title(ReplaceChar(ReplaceChar(SplitextRoot(Basename(path)), "-", " "), "_", " "))

\* The loop over sorted(unmatched_files): the counter steps, then the
\* document is added with the counter's value.
RECURSIVE AddUnmatched(_, _, _)
AddUnmatched(fm, todo, unmatched_weight) ==
    IF todo = <<>> THEN fm
    ELSE AddUnmatched(Put(fm, Head(todo),
                          [title |-> UnmatchedTitle(Head(todo)), section |-> None,
                           subsection |-> None,
                           weight |-> UnmatchedStep(unmatched_weight)]),
                      Tail(todo), UnmatchedStep(unmatched_weight))

\* The keys of file_metadata in the order the parse inserted them: a key
\* written again keeps its place.
RECURSIVE KeysInOrder(_)
KeysInOrder(log) ==
    IF log = <<>> THEN <<>>
    ELSE LET rest == KeysInOrder(SubSeq(log, 1, Len(log) - 1))
         IN  IF \E i \in 1..Len(rest) : rest[i] = log[Len(log)].path
             THEN rest ELSE Append(rest, log[Len(log)].path)

\* A slip: only a directory that holds a document is given an index file.
IndexDirsWithFiles(sm, fm) ==
    {d \in DOMAIN sm : \E p \in DOMAIN fm : StartsWith(p, d \o <<"/">>)}

\* "for dir_path, metadata in sorted(section_metadata.items()):
\* create_index_file(full_dir_path, metadata)": the directories that are
\* given an _index.md.
IndexDirs(sm, fm) == DOMAIN sm

\* main, from the return of parse_mkdocs_nav to the loop over the documents:
\* the documents on disk that the navigation does not name are added to
\* file_metadata, and every directory of section_metadata is given its index
\* file.
Reconcile ==
    /\ pc = "done"
    /\ pc' = "converting"
    /\ unmatched_files' = AllMdFiles(source_files) \ DOMAIN file_metadata
    /\ \E todo \in {Sorted(unmatched_files')} :
          /\ file_metadata' =
                 AddUnmatched(file_metadata, todo, StartWeight(MaxWeight(file_metadata)))
          /\ queue' = KeysInOrder(leaf_log) \o todo
    /\ index_files' = IndexDirs(section_metadata, file_metadata')
    /\ UNCHANGED <<config, source_files, scripted, lines, section_metadata,
                   current_section, current_subsection, current_section_dir,
                   current_subsection_dir, section_weight, subsection_weight,
                   item_weight, leaf_log, textVars, assetVars, copyVars,
                   converted_count, converted_matched, converted_unmatched,
                   error_count, attempts>>

NextMain == NextNav \/ Reconcile

\* parse_mkdocs_nav, then the reconciliation.
SpecMain == InitNav /\ [][NextMain]_vars

----------------------------------------------------------------------------
(* main: the loop that converts the documents.                             *)

\* What the documents on disk contain, by the name of the file.
DocText(path) ==
    CASE Basename(path) = M_Intro ->
             \* ---\nk: v\n---\n![x](../pictures/My%20Pic.png)\n--8<-- "c.yaml"\n
             <<"-","-","-","\n","k",":"," ","v","\n","-","-","-","\n","!","[","x","]","(",".",".","/","p","i","c","t","u","r","e","s","/","M","y","%","2","0","P","i","c",".","p","n","g",")","\n","-","-","8","<","-","-"," ","\"","c",".","y","a","m","l","\"","\n">>
      [] Basename(path) = M_Usage ->
             \* <img src="img/logo.png"><br>\n, then the fenced include of a.yaml
             <<"<","i","m","g"," ","s","r","c","=","\"","i","m","g","/","l","o","g","o",".","p","n","g","\"",">","<","b","r",">","\n">> \o I_Fenced
      [] Basename(path) = <<"i","n","d","e","x",".","m","d">> ->
             \* --8<-- "c.yaml"\n<img src='My Pic.png'>\n{% include 'd/b.yaml' %}\n
             <<"-","-","8","<","-","-"," ","\"","c",".","y","a","m","l","\"","\n","<","i","m","g"," ","s","r","c","=","'","M","y"," ","P","i","c",".","p","n","g","'",">","\n","{","%"," ","i","n","c","l","u","d","e"," ","'","d","/","b",".","y","a","m","l","'"," ","%","}","\n">>
      [] OTHER ->
             \* text\n
             <<"t","e","x","t","\n">>

\* A slip: the handler does not count the failure.
CountErrorNot(n) == n

\* except Exception: error_count += 1
CountError(n) == n + 1

InitBatch ==
    /\ pc = "start"
    /\ config = <<H_Site, H_Nav>>
    /\ source_files \in TreeChoices
    /\ scripted = TRUE
    /\ lines = <<>>
    /\ ParserFresh
    /\ content = <<>>
    /\ before = <<>>
    /\ snippet_files \in SnippetTreeChoices
    /\ missing_snippets = <<>>
    /\ md_filename = <<>>
    /\ include_log = <<>>
    /\ assets_tree = PhotosTree
    /\ asset_calls = <<>>
    /\ assets_tracking = EmptyMap
    /\ snippet_source = NoSnippets
    /\ snippet_copies = EmptyMap
    /\ unmatched_files = {}
    /\ queue = <<>>
    /\ converted_count = 0
    /\ converted_matched = 0
    /\ converted_unmatched = 0
    /\ error_count = 0
    /\ attempts = <<>>
    /\ index_files = {}

\* What every step of the loop leaves as it is.
LoopFrame ==
    UNCHANGED <<config, source_files, scripted, lines, parserState, snippet_files,
                assets_tree, copyVars, unmatched_files, index_files>>

\* convert_file raises: the handler of the loop counts the error, and the
\* loop goes to the next document.
Raises(outcome) ==
    /\ attempts' = Append(attempts, [filepath |-> Head(queue), outcome |-> outcome])
    /\ error_count' = CountError(error_count)
    /\ queue' = Tail(queue)
    /\ pc' = "converting"
    /\ UNCHANGED <<converted_count, converted_matched, converted_unmatched>>

\* The loop takes its next document and calls convert_file, which reads the
\* source; open or read may raise.
ConvertRead ==
    /\ pc = "converting"
    /\ queue # <<>>
    /\ \/ /\ content' = DocText(Head(queue))
          /\ before' = <<>>
          /\ md_filename' = <<>>
          /\ pc' = "strip"
          /\ UNCHANGED mainVars
       \/ /\ Raises("read_error")
          /\ UNCHANGED <<content, before, md_filename>>
    /\ UNCHANGED <<missing_snippets, include_log, asset_calls, assets_tracking>>
    /\ LoopFrame

\* content = strip_existing_front_matter(content)
\* content = clean_markdown_content(content)
ConvertClean ==
    /\ pc = "strip"
    /\ \E stripped \in {strip_existing_front_matter(content)} :
          /\ content' = clean_markdown_content(stripped)
          /\ before' = <<content, stripped>>
    /\ pc' = "rewrite"
    /\ UNCHANGED <<md_filename, missing_snippets, include_log, asset_calls,
                   assets_tracking, mainVars>>
    /\ LoopFrame

\* md_filename = os.path.basename(dst_path)
\* content = rewrite_asset_paths(content, assets_folder, assets_tracking, md_filename)
ConvertRewrite ==
    /\ pc = "rewrite"
    /\ md_filename' = Basename(Head(queue))
    /\ \E listing \in Listings[assets_tree] :
          \E r \in {rewrite_asset_paths(content, listing, assets_tracking, md_filename')} :
              /\ content' = r.content
              /\ assets_tracking' = r.assets_tracking
              /\ asset_calls' = asset_calls \o
                     [k \in 1..Len(r.targets) |->
                         [asset_filename |-> Basename(r.targets[k]),
                          listing |-> listing,
                          result |-> NewPath(r.targets[k], listing)]]
    /\ before' = Append(before, content)
    /\ pc' = "includes"
    /\ UNCHANGED <<missing_snippets, include_log, mainVars>>
    /\ LoopFrame

\* content = replace_yaml_includes(content, snippet_dest_folder, missing_snippets,
\*                                 md_filename)
ConvertIncludes ==
    /\ pc = "includes"
    /\ \E r \in {replace_yaml_includes(content, snippet_files, missing_snippets, md_filename)} :
          /\ content' = r.content
          /\ missing_snippets' = r.missing_snippets
          /\ include_log' = include_log \o r.calls
    /\ before' = Append(before, content)
    /\ pc' = "write"
    /\ UNCHANGED <<md_filename, asset_calls, assets_tracking, mainVars>>
    /\ LoopFrame

\* convert_file writes the destination and returns, and the loop counts the
\* conversion; open or write may raise.
ConvertWrite ==
    /\ pc = "write"
    /\ \/ /\ attempts' = Append(attempts, [filepath |-> Head(queue), outcome |-> "ok"])
          /\ converted_count' = converted_count + 1
          /\ IF Head(queue) \in unmatched_files
             THEN /\ converted_unmatched' = converted_unmatched + 1
                  /\ UNCHANGED converted_matched
             ELSE /\ converted_matched' = converted_matched + 1
                  /\ UNCHANGED converted_unmatched
          /\ queue' = Tail(queue)
          /\ pc' = "converting"
          /\ UNCHANGED error_count
       \/ Raises("write_error")
    /\ UNCHANGED <<textVars, asset_calls, assets_tracking>>
    /\ LoopFrame

\* file_metadata.items() is exhausted: the loop ends and the report follows.
LoopEnds ==
    /\ pc = "converting"
    /\ queue = <<>>
    /\ pc' = "finished"
    /\ UNCHANGED <<config, source_files, scripted, lines, parserState, textVars,
                   restVars>>

NextBatch ==
    \/ ParseStart
    \/ ReadLevel1Entry
    \/ ReadLevel2Entry
    \/ EndOfLines
    \/ Reconcile
    \/ ConvertRead
    \/ ConvertClean
    \/ ConvertRewrite
    \/ ConvertIncludes
    \/ ConvertWrite
    \/ LoopEnds

\* main from the parse of the navigation of the example to the end of the
\* loop over the documents.
SpecBatch == InitBatch /\ [][NextBatch]_vars

----------------------------------------------------------------------------
(* Properties of parse_mkdocs_nav.                                         *)

\* This step reads a line.
ReadsLine == Len(lines') = Len(lines) + 1

\* The line this step reads.
LineRead == lines'[Len(lines')]

\* The level of the entry a line holds: 1, 2 or 3, and 0 for a line that
\* holds none (a top-level line, a blank line, a comment, another
\* indentation).
Level(line) ==
    IF IsTopLevel(line) \/ IsBlankOrComment(line) THEN 0 ELSE Band(line)

\* This step records a leaf in file_metadata.
RecordsLeaf == Len(leaf_log') = Len(leaf_log) + 1

Last(s) == s[Len(s)]

\* The history tells what file_metadata holds: every key was recorded, with
\* the weight of its latest record.
LogIsFaithful ==
    /\ DOMAIN file_metadata = {leaf_log[i].path : i \in 1..Len(leaf_log)}
    /\ \A p \in DOMAIN file_metadata :
          LET latest == Max({i \in 1..Len(leaf_log) : leaf_log[i].path = p})
          IN  file_metadata[p].weight = leaf_log[latest].weight

\* The leaves recorded between one level-1 entry and the next have strictly
\* increasing weights, in the order they are visited.
LeafWeightsIncrease ==
    \A i, j \in 1..Len(leaf_log) :
        i < j /\ leaf_log[i].sec = leaf_log[j].sec
            => leaf_log[i].weight < leaf_log[j].weight

\* The section counter grows by exactly 10 at a level-1 entry and at no other
\* line.
SectionCounterSteps ==
    /\ ReadsLine /\ Level(LineRead) = 1 => section_weight' = section_weight + 10
    /\ ~(ReadsLine /\ Level(LineRead) = 1) => section_weight' = section_weight

\* C1: for any navigation input the section counter takes strictly increasing
\* values, growing by exactly 10 at each level-1 entry in document order, and
\* the weights recorded in file_metadata for the leaves visited between one
\* level-1 entry and the next strictly increase in document order.
C1_WeightsIncrease ==
    /\ [](LogIsFaithful /\ LeafWeightsIncrease)
    /\ [][SectionCounterSteps]_vars

\* C1: two level-1 entries were read, and two leaves were recorded between
\* one level-1 entry and the next.
C1_Witness ==
    /\ section_weight = 20
    /\ \E i, j \in 1..Len(leaf_log) : i < j /\ leaf_log[i].sec = leaf_log[j].sec

P_Intro == <<"g","u","i","d","e","/","i","n","t","r","o",".","m","d">>

P_Usage == <<"a","p","i","/","u","s","a","g","e",".","m","d">>

D_Guide == <<"g","u","i","d","e">>

D_Api == <<"a","p","i">>

T_Guide == <<"G","u","i","d","e">>

T_API == <<"A","P","I">>

\* The example's nav was parsed to its end, both of its files existing.
ExampleParsed ==
    /\ pc = "done"
    /\ lines = ExampleNav
    /\ FileExists(source_files, P_Intro)
    /\ FileExists(source_files, P_Usage)

\* C2 as the specification states it: the example yields leaf weights 10 and
\* 20, and section metadata guide -> (Guide, 10), api -> (API, 10).
C2_AsStated ==
    ExampleParsed =>
        /\ section_weight = 20
        /\ DOMAIN file_metadata = {P_Intro, P_Usage}
        /\ file_metadata[P_Intro].weight = 10
        /\ file_metadata[P_Usage].weight = 20
        /\ section_metadata =
               (D_Guide :> [title |-> T_Guide, weight |-> 10]
                @@ D_Api :> [title |-> T_API, weight |-> 10])

\* C2, amended: parsing the nav with the level-1 headings "Guide" and "API",
\* each followed by one nested leaf (guide/intro.md, api/usage.md, both
\* existing), yields section weights 10 and 20, leaf weights 20 and 30, and
\* section metadata guide -> (Guide, 10), api -> (API, 20).
C2_Example ==
    ExampleParsed =>
        /\ section_weight = 20
        /\ [i \in 1..Len(leaf_log) |-> leaf_log[i].sec] = <<10, 20>>
        /\ DOMAIN file_metadata = {P_Intro, P_Usage}
        /\ file_metadata[P_Intro].weight = 20
        /\ file_metadata[P_Usage].weight = 30
        /\ section_metadata =
               (D_Guide :> [title |-> T_Guide, weight |-> 10]
                @@ D_Api :> [title |-> T_API, weight |-> 20])

\* C2: the example was parsed to its end.
C2_Witness == ExampleParsed /\ Len(leaf_log) = 2

\* The item counter is seeded with the section counter's new value at a
\* level-1 entry, grows by 10 at a level-2 or level-3 entry (a subsection
\* heading included), and is left alone by every other line; a leaf is
\* recorded with the counter's value.
ItemCounterSteps ==
    /\ ReadsLine /\ Level(LineRead) = 1 =>
          item_weight' = section_weight' /\ section_weight' = section_weight + 10
    /\ ReadsLine /\ Level(LineRead) \in {2, 3} => item_weight' = item_weight + 10
    /\ ~(ReadsLine /\ Level(LineRead) \in {1, 2, 3}) => item_weight' = item_weight
    /\ RecordsLeaf =>
          /\ Last(leaf_log').weight = item_weight'
          /\ Last(leaf_log').path \in DOMAIN file_metadata'
          /\ file_metadata'[Last(leaf_log').path].weight = item_weight'

\* C3: the item counter is set to the section counter's new value at each
\* level-1 entry, increases by 10 at every level-2 and level-3 entry, is not
\* reset by a level-2 subsection heading, and every leaf recorded in
\* file_metadata carries the item counter's value at the moment it is visited.
C3_ItemCounter == [][ItemCounterSteps]_vars

\* C3: a leaf was recorded after a subsection heading, the counter having
\* gone on from the section's value through the heading.
C3_Witness ==
    /\ current_subsection # None
    /\ leaf_log # <<>>
    /\ Last(leaf_log).weight = item_weight
    /\ Last(leaf_log).sec = section_weight
    /\ section_weight > 0
    /\ item_weight = section_weight + 20

\* The path of the leaf a line holds, None when it holds no leaf.
LeafPath(line) ==
    LET s == Strip(line)
    IN  IF Level(line) = 0 THEN None
        ELSE IF Level(line) \in {1, 2} /\ ReHeader(s).ok THEN None
        ELSE IF ReFileRef(s).ok THEN ReFileRef(s).g2
        ELSE IF Level(line) \in {2, 3} /\ ReQuoted(s).ok THEN ReQuoted(s).g1
        ELSE None

\* The file of this path is on disk under the base directory.
UnderBase(p) == (SourceDir \o <<"/">> \o p) \in source_files

\* A line that holds a leaf whose file is not under the base directory.
MissingLeaf(line) == LeafPath(line) # None /\ ~UnderBase(LeafPath(line))

\* C4: every key of file_metadata is a path whose file existed under the
\* base directory when its leaf was visited; a leaf, at level 1, 2 or 3, whose
\* file does not exist adds no entry to file_metadata and raises no error.
C4_OnlyExistingFiles ==
    /\ [](\A p \in DOMAIN file_metadata : UnderBase(p))
    /\ [][ReadsLine /\ MissingLeaf(LineRead) =>
              pc' = "loop" /\ file_metadata' = file_metadata]_vars
    /\ [][ReadsLine /\ LeafPath(LineRead) # None /\ UnderBase(LeafPath(LineRead)) =>
              LeafPath(LineRead) \in DOMAIN file_metadata']_vars

\* C4: a leaf whose file does not exist was visited at each of the three
\* levels.
C4_Witness ==
    /\ \A k \in {1, 2, 3} :
          \E i \in 1..Len(lines) : Level(lines[i]) = k /\ MissingLeaf(lines[i])
    /\ pc = "done"

\* C5: once parse_mkdocs_nav has recorded the section metadata of a
\* directory, no later line of the parse changes its title or its weight.
C5_FirstSeenWins ==
    [][\A d \in DOMAIN section_metadata :
          d \in DOMAIN section_metadata' /\ section_metadata'[d] = section_metadata[d]]_vars

\* C5: a leaf under a recorded directory was visited again under another
\* level-1 entry, and the directory kept the weight of the first.
C5_Witness ==
    \E i, j \in 1..Len(leaf_log) :
        /\ i < j
        /\ Dirname(leaf_log[i].path) = Dirname(leaf_log[j].path)
        /\ leaf_log[i].sec # leaf_log[j].sec
        /\ Dirname(leaf_log[i].path) \in DOMAIN section_metadata
        /\ section_metadata[Dirname(leaf_log[i].path)].weight = leaf_log[i].sec

\* An entry line that matches none of the patterns of its level.
Malformed(line) ==
    /\ Level(line) \in {1, 2, 3}
    /\ ~ReFileRef(Strip(line)).ok
    /\ Level(line) \in {1, 2} => ~ReHeader(Strip(line)).ok
    /\ Level(line) \in {2, 3} => ~ReQuoted(Strip(line)).ok

\* The parse raises exactly when the configuration has no nav key line, and
\* then it has produced nothing.
RaisesWithoutNavKey ==
    pc # "start" =>
        /\ pc = "raised" <=> ~\E i \in 1..Len(config) : IsNavKey(config[i])
        /\ pc = "raised" =>
              lines = <<>> /\ file_metadata = EmptyMap /\ section_metadata = EmptyMap

\* No line of the nav block makes the parse fail: the loop goes on after it,
\* or returns at a top-level line; a malformed entry changes neither dict.
NoLineFails ==
    ReadsLine =>
        /\ pc' = "loop" \/ (pc' = "done" /\ IsTopLevel(LineRead))
        /\ Malformed(LineRead) =>
              /\ pc' = "loop"
              /\ UNCHANGED <<file_metadata, section_metadata>>

\* C6: parse_mkdocs_nav fails, producing no metadata, when the configuration
\* has no navigation key line; when it has one, no line of the navigation
\* block makes the parse fail: a malformed line is skipped and the parse goes
\* on with the next line.
C6_OnlyMissingKeyIsFatal ==
    /\ []RaisesWithoutNavKey
    /\ [][NoLineFails]_vars
    /\ [][pc' = "raised" => pc = "start"]_vars

\* C6: a malformed entry was read, and a leaf after it was recorded.
C6_Witness ==
    /\ \E i \in 1..Len(lines) : Malformed(lines[i]) /\ i < Len(lines)
    /\ Len(config) > 1
    /\ file_metadata # EmptyMap

\* The directory of the leaf a line holds; <<>> when the line holds no leaf
\* or the leaf's path has no directory.
LeafDir(line) == IF LeafPath(line) = None THEN <<>> ELSE Dirname(LeafPath(line))

\* The title in force after a step: the subsection's when there is one, else
\* the section's.
ActiveTitle ==
    IF Truthy(current_subsection') THEN current_subsection' ELSE current_section'

\* This step visits a leaf, at any level, whose directory is not recorded
\* yet: the first leaf of that directory.
FirstLeafOfDir ==
    /\ ReadsLine
    /\ LeafDir(LineRead) # <<>>
    /\ LeafDir(LineRead) \notin DOMAIN section_metadata

\* C19 as the specification states it: the first leaf, at level 1, 2 or 3,
\* whose path has directory d records section_metadata[d], with the title of
\* the active subsection if there is one and of the active section otherwise;
\* a level-3 leaf that is the first of its directory records the directory.
C19_AsStated ==
    [][FirstLeafOfDir =>
          /\ LeafDir(LineRead) \in DOMAIN section_metadata'
          /\ section_metadata'[LeafDir(LineRead)].title = ActiveTitle]_vars

\* C20 as the specification states it: every weight of section_metadata is a
\* positive multiple of 10, and the weights strictly increase in the order
\* the directories are recorded: a directory is recorded with a weight above
\* those of the directories recorded before it.
C20_AsStated ==
    /\ [](\A d \in DOMAIN section_metadata :
            section_metadata[d].weight > 0 /\ section_metadata[d].weight % 10 = 0)
    /\ [][\A e \in DOMAIN section_metadata' \ DOMAIN section_metadata :
            \A d \in DOMAIN section_metadata :
                section_metadata[d].weight < section_metadata'[e].weight]_vars

----------------------------------------------------------------------------
(* Properties of strip_existing_front_matter.                              *)

\* The text starts with a delimited block of one of the two styles.
HasLeadingBlock(s) == FrontMatterEnd(s, "-") > 0 \/ FrontMatterEnd(s, "+") > 0

\* strip_existing_front_matter has been applied a second time.
SecondPass == Len(before) >= 2

\* The result of the pass before the last one.
FirstResult == before[Len(before)]

\* C7 as stated: a second pass of strip_existing_front_matter over the result
\* of a first pass changes nothing.
C7_AsStated == SecondPass => content = FirstResult

\* C7: a second pass of strip_existing_front_matter changes nothing exactly
\* when the result of the first pass does not itself start with a delimited
\* block; when it does, as when two blocks follow one another, the second
\* pass removes that block too.
C7_IdempotentWithoutSecondBlock ==
    SecondPass => (content = FirstResult <=> ~HasLeadingBlock(FirstResult))

\* C7: a first pass removed a block, and the second pass changed nothing.
C7_Witness ==
    /\ Len(before) = 2
    /\ before[2] # before[1]
    /\ before[2] # <<>>
    /\ content = before[2]

----------------------------------------------------------------------------
(* Properties of clean_markdown_content.                                   *)

\* One of the raw markers occurs in the text.
HasRawMarker(s) == \E marker \in RawMarkers : Contains(s, marker)

\* C8 as stated: after clean_markdown_content no raw or endraw marker, of any
\* hyphen variant, is left in the text.
C8_AsStated == Len(before) = 1 => ~HasRawMarker(content)

----------------------------------------------------------------------------
(* Properties of replace_yaml_includes.                                    *)

\* A fenced block labelled yaml, with no or one space before the label, whose
\* body is one include directive.
FencedIncludes == {I_Fenced, I_FencedTrail, I_FencedSpace}

\* C9 as stated: of a fenced yaml block around one include directive, neither
\* fence is left in the output of replace_yaml_includes.
C9_AsStated ==
    Len(before) = 1 /\ before[1] \in FencedIncludes => ~Contains(content, Fence)

\* The file of this path is under the snippet destination folder.
UnderSnippetDest(p) == (SnippetDest \o <<"/">> \o p) \in snippet_files

\* The records of the paths, of those in the sequence, that are missing.
RECURSIVE MissingRecords(_)
MissingRecords(paths) ==
    IF paths = <<>> THEN <<>>
    ELSE (IF UnderSnippetDest(Head(paths)) THEN <<>>
          ELSE <<[snippet |-> Head(paths), referenced_in |-> md_filename]>>)
         \o MissingRecords(Tail(paths))

\* The number of places where p occurs in s.
Occurrences(s, p) == Cardinality({i \in 1..Len(s) : OccursAt(s, p, i)})

\* C10: every include that replace_yaml_includes matches is replaced by the
\* directive that holds the whole captured path, directories included,
\* whether or not the file exists under the snippet destination folder; one
\* record of the path and the document is appended to missing_snippets for
\* each match whose file does not exist there, and none for a match whose
\* file exists.
C10_SubstituteAndRecord ==
    [][before = <<>> /\ before' # <<>> =>
          /\ \A i \in 1..Len(include_log') :
                Occurrences(content', Directive(include_log'[i]))
                    = Cardinality({j \in 1..Len(include_log') :
                                      include_log'[j] = include_log'[i]})
          /\ missing_snippets' = missing_snippets \o MissingRecords(include_log')]_vars

\* C10: an include of an existing file and an include of a missing file in a
\* directory were both replaced, and one record was appended to those of the
\* documents converted earlier.
C10_Witness ==
    /\ Len(before) = 1
    /\ \E i, j \in 1..Len(include_log) :
          /\ UnderSnippetDest(include_log[i])
          /\ ~UnderSnippetDest(include_log[j])
          /\ Contains(include_log[j], <<"/">>)
    /\ Len(missing_snippets) = 2
    /\ missing_snippets[1].referenced_in # md_filename

\* The matches the three patterns still find in a text.
LeftOver(text) ==
    Find("pattern_yaml_block", text, 1) \o Find("pattern_include", text, 1)
        \o Find("pattern_mkdocs", text, 1)

\* C11: the number of directives in the output of replace_yaml_includes is
\* the number of matches of the fenced include in the document, plus that of
\* the bare include in the text the first substitution leaves, plus that of
\* the snippet marker in the text the second leaves; the output holds no
\* text that one of the three patterns matches.
C11_DirectivesCountMatches ==
    Len(before) = 1 =>
        /\ Occurrences(content, DirectiveOpen) = Len(include_log)
        /\ Occurrences(content, DirectiveClose) = Len(include_log)
        /\ LeftOver(content) = <<>>

\* C11: a document with a fenced include, a bare include and a snippet
\* marker was rewritten, and each of the three was replaced.
C11_Witness ==
    /\ Len(before) = 1
    /\ Len(Find("pattern_yaml_block", before[1], 1)) = 1
    /\ Contains(before[1], SnippetMarker)
    /\ Len(include_log) = 3
    /\ Occurrences(content, DirectiveOpen) = 3

----------------------------------------------------------------------------
(* Properties of copy_snippets_folder.                                     *)

\* {{ .key }}
TemplateExpr == <<"{","{"," ",".","k","e","y"," ","}","}">>

\* C18 as the specification states it: the copy of a snippet file holds no
\* raw or endraw marker, and keeps the other template expressions of the
\* file.
C18_AsStated ==
    pc = "start" /\ snippet_source.exists =>
        \A p \in DOMAIN snippet_source.files :
            /\ p \in DOMAIN snippet_copies
            /\ ~HasRawMarker(snippet_copies[p])
            /\ Contains(snippet_source.files[p], TemplateExpr)
                   => Contains(snippet_copies[p], TemplateExpr)

----------------------------------------------------------------------------
(* Properties of find_asset_in_folder.                                     *)

\* A path with each of its spaces written %20 and every other character as
\* it is.
RECURSIVE SpacesEncoded(_)
SpacesEncoded(p) ==
    IF p = <<>> THEN <<>>
    ELSE (IF Head(p) = " " THEN <<"%", "2", "0">> ELSE <<Head(p)>>)
             \o SpacesEncoded(Tail(p))

\* The entry of a listing is a regular file named as the lookup asks,
\* verbatim or decoded.
Named(entry, asset_filename) ==
    /\ entry.is_file
    /\ \E name \in {asset_filename, unquote(asset_filename)} :
          entry.path = Dirname(entry.path) \o <<"/">> \o name

\* The path of an entry below the assets folder.
Below(path) ==
    CHOOSE rel \in {SubSeq(path, k, Len(path)) : k \in 1..Len(path)} :
        AssetsFolder \o <<"/">> \o rel = path

\* What the lookup is to return: for the first entry so named, its path
\* below the folder, behind a slash, the spaces encoded.
Expected(call) ==
    LET hits == {i \in 1..Len(call.listing) : Named(call.listing[i], call.asset_filename)}
    IN  IF hits = {} THEN None
        ELSE <<"/">> \o SpacesEncoded(Below(call.listing[CHOOSE i \in hits : \A k \in hits : i <= k].path))

C13_AsStated ==
    \A m, n \in 1..Len(asset_calls) :
        asset_calls[m].asset_filename = asset_calls[n].asset_filename
            => asset_calls[m].result = asset_calls[n].result

----------------------------------------------------------------------------
(* Properties of rewrite_asset_paths.                                      *)

\* The matches of the three image reference shapes in a text.
ImageMatches(text) ==
    Find("img_md", text, 1) \o Find("img_dq", text, 1) \o Find("img_sq", text, 1)

\* The target of a match resolves: it is no http or https URL, its base
\* filename is not empty, and the assets folder holds a regular file of that
\* name, verbatim or decoded.
Resolves(target) ==
    /\ ~StartsWith(target, <<"h","t","t","p",":","/","/">>)
    /\ ~StartsWith(target, <<"h","t","t","p","s",":","/","/">>)
    /\ Strip(Basename(target)) # <<>>
    /\ \E entry \in assets_tree : Named(entry, Basename(target))

\* The decoded base filenames of the targets, among the matches of a text,
\* that resolve.
ResolvedNames(text) ==
    {unquote(Basename(ImageMatches(text)[k].path)) :
        k \in {n \in 1..Len(ImageMatches(text)) : Resolves(ImageMatches(text)[n].path)}}

\* This step is the call of rewrite_asset_paths on a document.
Rewrites == before = <<>> /\ before' # <<>>

\* C14: in rewrite_asset_paths a match whose target is an http or https URL,
\* has an empty base filename or cannot be resolved keeps its text, and the
\* text is unchanged when no match resolves; assets_tracking gains the
\* current document under the decoded base filename of every match that
\* resolves, and nothing else.
C14_OnlyResolvedTracked ==
    [][Rewrites =>
          /\ \A k \in 1..Len(ImageMatches(content)) :
                ~Resolves(ImageMatches(content)[k].path) =>
                    Contains(content', SubSeq(content, ImageMatches(content)[k].start,
                                              ImageMatches(content)[k].end))
          /\ ResolvedNames(content) = {} => content' = content
          /\ DOMAIN assets_tracking' = DOMAIN assets_tracking \cup ResolvedNames(content)
          /\ \A key \in DOMAIN assets_tracking' :
                assets_tracking'[key] =
                    (IF key \in DOMAIN assets_tracking THEN assets_tracking[key] ELSE {})
                        \cup (IF key \in ResolvedNames(content) THEN {md_filename} ELSE {})]_vars

\* C14: a document with a reference that resolves and a reference to an
\* http URL was rewritten; the first is tracked under its decoded name, the
\* second is not, although the folder has a file of its base name.
C14_Witness ==
    /\ Len(before) = 1
    /\ Contains(before[1], <<"M","y","%","2","0","P","i","c",".","p","n","g">>)
    /\ Contains(content, <<"(","/","p","h","o","t","o","s","/","M","y","%","2","0","P","i","c",".","p","n","g",")">>)
    /\ Contains(content, <<"h","t","t","p",":","/","/","h","/","l","o","g","o",".","p","n","g">>)
    /\ DOMAIN assets_tracking = {<<"M","y"," ","P","i","c",".","p","n","g">>}
    /\ assets_tracking[<<"M","y"," ","P","i","c",".","p","n","g">>] = {md_filename}

----------------------------------------------------------------------------
(* Properties of main.                                                     *)

\* This step is the reconciliation.
Reconciles == pc = "done" /\ pc' = "converting"

\* The reconciliation is over.
Reconciled == pc \in {"converting", "finished"}

\* The documents of file_metadata that the navigation named.
NavMatched == DOMAIN file_metadata \ unmatched_files

\* C15: after the reconciliation the weight of every unmatched document is
\* greater than the weight of every document of the navigation, the weights
\* of the unmatched documents strictly increase in sorted path order, and the
\* reconciliation leaves the entry of every document of the navigation as it
\* was.
C15_UnmatchedAfterMatched ==
    /\ [](Reconciled =>
            /\ \A u \in unmatched_files : \A m \in NavMatched :
                  file_metadata[u].weight > file_metadata[m].weight
            /\ \A u, v \in unmatched_files :
                  StrLess(u, v) => file_metadata[u].weight < file_metadata[v].weight)
    /\ [][Reconciles =>
            \A m \in DOMAIN file_metadata :
                m \in DOMAIN file_metadata' /\ file_metadata'[m] = file_metadata[m]]_vars

\* C15: two documents or more were unmatched, and two or more matched.
C15_Witness ==
    /\ Reconciled
    /\ Cardinality(unmatched_files) >= 2
    /\ Cardinality(NavMatched) >= 2

\* The greatest weight of the documents of the navigation, 0 without any.
NavMax ==
    IF NavMatched = {} THEN 0
    ELSE CHOOSE w \in {file_metadata[m].weight : m \in NavMatched} :
             \A m \in NavMatched : file_metadata[m].weight <= w

\* The number of unmatched documents before u in sorted path order.
Before(u) == Cardinality({v \in unmatched_files : StrLess(v, u)})

\* C16 as the specification states it: the first unmatched document in
\* sorted path order has weight NavMax + 1000, and the k-th after it that
\* weight + 10 * k.
C16_AsStated ==
    Reconciled =>
        \A u \in unmatched_files : file_metadata[u].weight = NavMax + 1000 + 10 * Before(u)

\* C16, amended: the first unmatched document in sorted path order has weight
\* NavMax + 1010 (the counter starts at NavMax + 1000 and steps by 10 before
\* each document is added), and the k-th after it that weight + 10 * k.
C16_FirstIsOffsetPlusStep ==
    Reconciled =>
        \A u \in unmatched_files : file_metadata[u].weight = NavMax + 1010 + 10 * Before(u)

\* C16: three documents or more were unmatched, the navigation having named
\* one at least.
C16_Witness ==
    /\ Reconciled
    /\ Cardinality(unmatched_files) >= 3
    /\ NavMax > 0

----------------------------------------------------------------------------
(* Properties of the loop of main over the documents.                      *)

\* The documents the loop has attempted.
Attempted == {attempts[i].filepath : i \in 1..Len(attempts)}

\* This step is a pass of the loop in which convert_file raises.
Fails ==
    /\ Len(attempts') = Len(attempts) + 1
    /\ attempts'[Len(attempts')].outcome # "ok"

\* The two trackers keep over this step all that they hold.
TrackersKept ==
    /\ \A key \in DOMAIN assets_tracking :
          key \in DOMAIN assets_tracking' /\ assets_tracking[key] \subseteq assets_tracking'[key]
    /\ Len(missing_snippets) <= Len(missing_snippets')
    /\ SubSeq(missing_snippets', 1, Len(missing_snippets)) = missing_snippets

----------------------------------------------------------------------------
(* More properties of parse_mkdocs_nav.                                    *)

\* A comment line, at any indentation.
IsComment(line) == StartsWith(Strip(line), <<"#">>)

\* An indented line whose indentation is in none of the three bands.
OutsideBands(line) ==
    /\ ~IsTopLevel(line)
    /\ Indent(line) \notin ({2} \cup (6..8) \cup (10..12))

\* A line the parser is to ignore.
Ignorable(line) == Strip(line) = <<>> \/ IsComment(line) \/ OutsideBands(line)

\* C21 as the specification states it: a blank line, a comment line at any
\* indentation, none included, or a line indented outside the three bands
\* changes neither file_metadata, section_metadata, the active section and
\* subsection nor any counter, and the loop goes on; a line ends the parse
\* only if it is non-blank, not indented and no comment.
C21_AsStated ==
    [][ReadsLine =>
          /\ Ignorable(LineRead) => parserState' = parserState /\ pc' = "loop"
          /\ pc' = "done" =>
                LineRead # <<>> /\ IsTopLevel(LineRead) /\ ~IsComment(LineRead)]_vars

----------------------------------------------------------------------------
(* More properties of strip_existing_front_matter.                         *)

\* The text without its leading delimited block, of whichever style; the
\* text itself when it starts with none.
WithoutLeadingBlock(s) ==
    IF FrontMatterEnd(s, "-") > 0 THEN SubSeq(s, FrontMatterEnd(s, "-") + 1, Len(s))
    ELSE IF FrontMatterEnd(s, "+") > 0 THEN SubSeq(s, FrontMatterEnd(s, "+") + 1, Len(s))
    ELSE s

\* C22 as the specification states it: a call of strip_existing_front_matter
\* removes the one delimited block the document starts with, of either style,
\* and nothing else: a document that starts with no block comes back
\* unchanged, and a second block that directly follows the first stays.
C22_AsStated ==
    Len(before) >= 1 => content = WithoutLeadingBlock(before[Len(before)])

----------------------------------------------------------------------------
(* More properties of rewrite_asset_paths.                                 *)

\* The text of a match with its target, which ends one character before the
\* end of the match, replaced by the resolved path, and the rest as it was;
\* the text itself when the target does not resolve.
TargetReplaced(text, asset_path, listing) ==
    IF NewPath(asset_path, listing) = None THEN text
    ELSE SubSeq(text, 1, Len(text) - Len(asset_path) - 1)
             \o NewPath(asset_path, listing) \o <<text[Len(text)]>>

\* The text s from position i on, with the target of each of the matches
\* ms[k], ms[k + 1], ... replaced.
RECURSIVE TargetSpliced(_, _, _, _, _)
TargetSpliced(s, ms, listing, k, i) ==
    IF k > Len(ms) THEN SubSeq(s, i, Len(s))
    ELSE SubSeq(s, i, ms[k].start - 1)
             \o TargetReplaced(SubSeq(s, ms[k].start, ms[k].end), ms[k].path, listing)
             \o TargetSpliced(s, ms, listing, k + 1, ms[k].end + 1)

\* The three shapes in turn, the targets alone replaced.
RECURSIVE TargetPasses(_, _, _)
TargetPasses(patterns, text, listing) ==
    IF patterns = <<>> THEN text
    ELSE TargetPasses(Tail(patterns),
                      TargetSpliced(text, Find(Head(patterns), text, 1), listing, 1, 1),
                      listing)

\* C23 as the specification states it: rewrite_asset_paths replaces, in each
\* image reference that resolves, the target by the resolved path and nothing
\* else: the alt text and the brackets of a markdown image, and the tag name,
\* the attribute name and the quote of an HTML image, stay as they were,
\* whatever the target is.
C23_AsStated ==
    [][Rewrites =>
          content' = IF asset_calls' = <<>> THEN content
                     ELSE TargetPasses(<<"img_md", "img_dq", "img_sq">>, content,
                                       asset_calls'[1].listing)]_vars

----------------------------------------------------------------------------
(* Directories recorded without a document.                                *)

\* A document of file_metadata lies under this directory.
HoldsDocument(d) == \E p \in DOMAIN file_metadata : StartsWith(p, d \o <<"/">>)

\* C24: at level 1 and level 2 the first leaf of a directory records the
\* directory in section_metadata whether its file exists or not, and main
\* gives an index file to every directory of section_metadata; so a
\* directory of section_metadata need not hold a document of file_metadata.
C24_DirRecordedWithoutCheck ==
    /\ [][FirstLeafOfDir /\ Level(LineRead) \in {1, 2} =>
              /\ LeafDir(LineRead) \in DOMAIN section_metadata'
              /\ MissingLeaf(LineRead) => file_metadata' = file_metadata]_vars
    /\ [][Reconciles => index_files' = DOMAIN section_metadata]_vars

\* C24: the navigation named a leaf of a directory that holds no document;
\* the directory is in section_metadata and was given an index file, and no
\* document of file_metadata lies under it.
C24_Witness ==
    /\ Reconciled
    /\ \E d \in index_files : d \in DOMAIN section_metadata /\ ~HoldsDocument(d)

----------------------------------------------------------------------------
(* Properties of missing_snippets over the loop of main.                   *)

\* The bare includes of a text: the matches of the include directive that lie
\* in no match of the fenced include.
BareIncludes(text) ==
    SelectSeq(Find("pattern_include", text, 1),
              LAMBDA m : \A k \in 1..Len(Find("pattern_yaml_block", text, 1)) :
                            \/ m.start < Find("pattern_yaml_block", text, 1)[k].start
                            \/ m.start > Find("pattern_yaml_block", text, 1)[k].end)

\* The snippet markers of a text.
SnippetMarkers(text) == Find("pattern_mkdocs", text, 1)

\* The paths a text refers to: those of its fenced includes, then those of
\* its bare includes, then those of its snippet markers, each group in the
\* order of the text.
PassOrder(text) ==
    Captured(Find("pattern_yaml_block", text, 1)) \o Captured(BareIncludes(text))
        \o Captured(SnippetMarkers(text))

\* The step is the call of replace_yaml_includes on the document of the pass.
ConvertsIncludes == pc = "includes" /\ pc' = "write"

\* C25: over the whole loop of main no step removes or changes a record of
\* missing_snippets; the call of replace_yaml_includes on a document appends
\* the records of the missing paths of its fenced includes, then those of its
\* bare includes, then those of its snippet markers, each group in the order
\* of the text, and no other step appends anything.
C25_AppendedInPassOrder ==
    [][/\ Len(missing_snippets) <= Len(missing_snippets')
       /\ SubSeq(missing_snippets', 1, Len(missing_snippets)) = missing_snippets
       /\ ConvertsIncludes =>
             missing_snippets' = missing_snippets \o MissingRecords(PassOrder(content))
       /\ ~ConvertsIncludes => missing_snippets' = missing_snippets]_vars

\* C25: replace_yaml_includes has run on a document in which a missing
\* snippet marker precedes a missing bare include; the record of the include
\* is followed by that of the marker, and both follow the record of a
\* document converted earlier.
C25_Witness ==
    /\ pc = "write"
    /\ \E i \in 2..(Len(missing_snippets) - 1) :
          /\ missing_snippets[1].referenced_in # md_filename
          /\ missing_snippets[i].referenced_in = md_filename
          /\ missing_snippets[i + 1].referenced_in = md_filename
          /\ \E b \in 1..Len(BareIncludes(before[Len(before)])),
                m \in 1..Len(SnippetMarkers(before[Len(before)])) :
                /\ SnippetMarkers(before[Len(before)])[m].start
                       < BareIncludes(before[Len(before)])[b].start
                /\ BareIncludes(before[Len(before)])[b].path = missing_snippets[i].snippet
                /\ SnippetMarkers(before[Len(before)])[m].path
                       = missing_snippets[i + 1].snippet

====
